---- MODULE Spec2Model ----
(***************************************************************************)
(* A model of beeper-cli's read-only store (package beeper): thread        *)
(* listing and labelling, message search with LIKE fallback and context    *)
(* windows, and the bridge name lookup with its per-room cache.            *)
(*                                                                         *)
(* Conventions.  Text that the code inspects character by character        *)
(* (archived markers, message bodies, search queries) is a sequence of     *)
(* one-character strings; identifiers that the code only compares or       *)
(* normalises (room ids, account ids, labels, message types) are strings.  *)
(* A time.Time is [isZero, ms].  sql.NullString / sql.NullInt64 are        *)
(* [Valid, v].  An absent error is the empty string.                       *)
(***************************************************************************)
EXTENDS Integers, Sequences, FiniteSets, TLC

VARIABLES
    threads,        \* table threads: threadID -> row (threadID is the primary key)
    breadcrumbs,    \* table breadcrumbs: id -> lastOpenTime (NullInt64); absent ids have no row
    participants,   \* table participants: sequence of rows
    messages,       \* table mx_room_messages: id -> row
    fts,            \* table mx_room_messages_fts: [exists, rows: rowid -> indexed text]
    bridgeFiles,    \* the megabridge.db files: path -> [portal, ghost]
    bridge,         \* Store.bridge: [present, platformDBs: key -> path]
    cache,          \* BridgeLookup.cache: roomID -> name ("" records a miss)
    op,             \* the operation that ran last ("" after construction)
    args,           \* its arguments
    ret,            \* its result value
    err,            \* its error ("" for nil)
    queries,        \* the queries it issued on the primary handle, in order
    opened,         \* the secondary-store handle events it caused, in order
    pc,             \* the operation under way when it is followed query by query:
                    \* its name, arguments, the queries it has yet to issue and
                    \* its outcome (<<>> when none is under way)
    cursors         \* the result cursors it holds on the primary handle, each
                    \* with the connection it occupies

vars == <<threads, breadcrumbs, participants, messages, fts, bridgeFiles,
          bridge, cache, op, args, ret, err, queries, opened, pc, cursors>>

storeVars == <<threads, breadcrumbs, participants, messages, fts>>

(***************************************************************************)
(* Generic helpers                                                         *)
(***************************************************************************)
Range(s) == {s[i] : i \in DOMAIN s}

Max(a, b) == IF a >= b THEN a ELSE b

Min(a, b) == IF a <= b THEN a ELSE b

SetMax(S) == CHOOSE x \in S : \A y \in S : y <= x

\* All orderings of the finite set S (sequences without repetition).
Perms(S) ==
    {f \in [1..Cardinality(S) -> S] : \A i, j \in 1..Cardinality(S) : i # j => f[i] # f[j]}

Take(s, n) == SubSeq(s, 1, Min(n, Len(s)))

NoErr == ""

\* sql.NullString / sql.NullInt64
Null == [Valid |-> FALSE]

Val(v) == [Valid |-> TRUE, v |-> v]

\* NullString.String / NullInt64.Int64 of a scanned value: the zero value when NULL
StringOf(ns) == IF ns.Valid THEN ns.v ELSE <<>>

\* time.Time{} and time.UnixMilli
ZeroTime == [isZero |-> TRUE]

UnixMilli(ms) == [isZero |-> FALSE, ms |-> ms]

\* Time.After: the zero time (year 1) precedes every Unix-millisecond time of the model
After(t, u) ==
    IF t.isZero THEN FALSE
    ELSE IF u.isZero THEN TRUE
    ELSE t.ms > u.ms

(***************************************************************************)
(* Character-level text                                                    *)
(***************************************************************************)
IsSpace(c) == c = " "

Digits == <<"0", "1", "2", "3", "4", "5", "6", "7", "8", "9">>

IsDigit(c) == \E i \in 1..10 : Digits[i] = c

DigitVal(c) == (CHOOSE i \in 1..10 : Digits[i] = c) - 1

LowerChar(c) ==
    CASE c = "A" -> "a"
      [] c = "B" -> "b"
      [] c = "C" -> "c"
      [] c = "D" -> "d"
      [] c = "E" -> "e"
      [] c = "F" -> "f"
      [] c = "G" -> "g"
      [] c = "H" -> "h"
      [] c = "I" -> "i"
      [] c = "J" -> "j"
      [] c = "K" -> "k"
      [] c = "L" -> "l"
      [] c = "M" -> "m"
      [] c = "N" -> "n"
      [] c = "O" -> "o"
      [] c = "P" -> "p"
      [] c = "Q" -> "q"
      [] c = "R" -> "r"
      [] c = "S" -> "s"
      [] c = "T" -> "t"
      [] c = "U" -> "u"
      [] c = "V" -> "v"
      [] c = "W" -> "w"
      [] c = "X" -> "x"
      [] c = "Y" -> "y"
      [] c = "Z" -> "z"
      [] OTHER -> c

\* strings.ToLower (ASCII)
ToLower(s) == [i \in DOMAIN s |-> LowerChar(s[i])]

UpperChar(c) ==
    CASE c = "a" -> "A"
      [] c = "b" -> "B"
      [] c = "c" -> "C"
      [] c = "d" -> "D"
      [] c = "e" -> "E"
      [] c = "f" -> "F"
      [] c = "g" -> "G"
      [] c = "h" -> "H"
      [] c = "i" -> "I"
      [] c = "j" -> "J"
      [] c = "k" -> "K"
      [] c = "l" -> "L"
      [] c = "m" -> "M"
      [] c = "n" -> "N"
      [] c = "o" -> "O"
      [] c = "p" -> "P"
      [] c = "q" -> "Q"
      [] c = "r" -> "R"
      [] c = "s" -> "S"
      [] c = "t" -> "T"
      [] c = "u" -> "U"
      [] c = "v" -> "V"
      [] c = "w" -> "W"
      [] c = "x" -> "X"
      [] c = "y" -> "Y"
      [] c = "z" -> "Z"
      [] OTHER -> c

\* strings.ToUpper (ASCII)
ToUpper(s) == [i \in DOMAIN s |-> UpperChar(s[i])]

RECURSIVE TrimLeft(_)
TrimLeft(s) == IF s # <<>> /\ IsSpace(Head(s)) THEN TrimLeft(Tail(s)) ELSE s

RECURSIVE TrimRight(_)
TrimRight(s) ==
    IF s # <<>> /\ IsSpace(s[Len(s)]) THEN TrimRight(SubSeq(s, 1, Len(s) - 1)) ELSE s

\* strings.TrimSpace
TrimSpace(s) == TrimRight(TrimLeft(s))

\* strings.HasPrefix
HasPrefix(s, p) == Len(s) >= Len(p) /\ SubSeq(s, 1, Len(p)) = p

\* strings.Contains
Contains(s, sub) ==
    \E i \in 1..(Len(s) - Len(sub) + 1) : SubSeq(s, i, i + Len(sub) - 1) = sub

(***************************************************************************)
(* Classification engine: archived state, tags, labels, last activity      *)
(***************************************************************************)
AllDigits(s) == s # <<>> /\ \A i \in DOMAIN s : IsDigit(s[i])

RECURSIVE DecVal(_)
DecVal(s) == IF s = <<>> THEN 0 ELSE 10 * DecVal(SubSeq(s, 1, Len(s) - 1)) + DigitVal(s[Len(s)])

IsSign(c) == c = "-" \/ c = "+"

Unsigned(s) == IF s # <<>> /\ IsSign(Head(s)) THEN Tail(s) ELSE s

Signed(s, n) == IF s # <<>> /\ Head(s) = "-" THEN 0 - n ELSE n

\* strconv.ParseInt(raw, 10, 64): an optional sign and at least one decimal digit
ParseInt(raw) ==
    IF AllDigits(Unsigned(raw))
    THEN [v |-> Signed(raw, DecVal(Unsigned(raw))), ok |-> TRUE]
    ELSE [v |-> 0, ok |-> FALSE]

DotAt(s) == IF \E i \in DOMAIN s : s[i] = "." THEN CHOOSE i \in DOMAIN s : s[i] = "." ELSE 0

\* strconv.ParseFloat(raw, 64) followed by int64(parsed), for decimal literals
\* "digits.digits" (either side may be empty, not both): the value truncated
\* toward zero.  Exponent, hexadecimal, inf and nan literals are outside the
\* texts of the model.
ParseFloatTrunc(raw) ==
    LET split(u, d) ==
            LET ip == IF d = 0 THEN u ELSE SubSeq(u, 1, d - 1)
                fp == IF d = 0 THEN <<>> ELSE SubSeq(u, d + 1, Len(u))
            IN  IF /\ (ip = <<>> \/ AllDigits(ip))
                   /\ (fp = <<>> \/ AllDigits(fp))
                   /\ (ip # <<>> \/ fp # <<>>)
                THEN [v |-> Signed(raw, DecVal(ip)), ok |-> TRUE]
                ELSE [v |-> 0, ok |-> FALSE]
        unsigned(u) == split(u, DotAt(u))
    IN  unsigned(Unsigned(raw))

parseArchivedValue(value) ==
    LET none == [v |-> 0, ok |-> FALSE]
        \* strconv.ParseInt first, strconv.ParseFloat second
        first(parsed, floated) ==
            IF parsed.ok THEN parsed ELSE IF floated.ok THEN floated ELSE none
        number(raw) == IF raw = <<>> THEN none ELSE first(ParseInt(raw), ParseFloatTrunc(raw))
        \* raw after strings.TrimSpace: a leading "ts" (in any case) is cut off
        trimmed(raw) ==
            IF raw = <<>> THEN none
            ELSE number(IF HasPrefix(ToLower(raw), <<"t", "s">>) THEN SubSeq(raw, 3, Len(raw))
                        ELSE raw)
    IN  IF ~value.Valid THEN none ELSE trimmed(TrimSpace(value.v))

\* The literal 1_000_000_000_000 of computeArchived.  The model compresses the
\* int64 range order-preservingly: marker, order and timestamp values are small
\* numbers, and the values above this threshold stand for millisecond timestamps.
archivedTsThreshold == 100

\* Variant: the archived-through marker is looked at before the ordering marker
computeArchivedMarkerFirst(archivedUpto, archivedUpToOrder, latestHsOrder, lastMessage) ==
    LET decide(order, ts) ==
            IF ts.ok THEN
                IF ts.v > archivedTsThreshold
                THEN (IF lastMessage.Valid THEN lastMessage.v <= ts.v ELSE TRUE)
                ELSE (IF latestHsOrder.Valid THEN latestHsOrder.v <= ts.v ELSE TRUE)
            ELSE IF order.ok /\ latestHsOrder.Valid THEN latestHsOrder.v <= order.v
            ELSE archivedUpto.Valid /\ TrimSpace(archivedUpto.v) # <<>>
    IN  decide(parseArchivedValue(archivedUpToOrder), parseArchivedValue(archivedUpto))

\* Variant: a marker equal to the threshold already counts as a timestamp
computeArchivedThresholdInclusive(archivedUpto, archivedUpToOrder, latestHsOrder, lastMessage) ==
    LET decide(order, ts) ==
            IF order.ok /\ latestHsOrder.Valid THEN latestHsOrder.v <= order.v
            ELSE IF ts.ok THEN
                IF ts.v >= archivedTsThreshold
                THEN (IF lastMessage.Valid THEN lastMessage.v <= ts.v ELSE TRUE)
                ELSE (IF latestHsOrder.Valid THEN latestHsOrder.v <= ts.v ELSE TRUE)
            ELSE archivedUpto.Valid /\ TrimSpace(archivedUpto.v) # <<>>
    IN  decide(parseArchivedValue(archivedUpToOrder), parseArchivedValue(archivedUpto))

\* Variant: the textual fallback accepts a marker of white space
computeArchivedBlankCounts(archivedUpto, archivedUpToOrder, latestHsOrder, lastMessage) ==
    LET decide(order, ts) ==
            IF order.ok /\ latestHsOrder.Valid THEN latestHsOrder.v <= order.v
            ELSE IF ts.ok THEN
                IF ts.v > archivedTsThreshold
                THEN (IF lastMessage.Valid THEN lastMessage.v <= ts.v ELSE TRUE)
                ELSE (IF latestHsOrder.Valid THEN latestHsOrder.v <= ts.v ELSE TRUE)
            ELSE archivedUpto.Valid
    IN  decide(parseArchivedValue(archivedUpToOrder), parseArchivedValue(archivedUpto))

computeArchived(archivedUpto, archivedUpToOrder, latestHsOrder, lastMessage) ==
    LET decide(order, ts) ==
            IF order.ok /\ latestHsOrder.Valid THEN latestHsOrder.v <= order.v
            ELSE IF ts.ok THEN
                IF ts.v > archivedTsThreshold
                THEN (IF lastMessage.Valid THEN lastMessage.v <= ts.v ELSE TRUE)
                ELSE (IF latestHsOrder.Valid THEN latestHsOrder.v <= ts.v ELSE TRUE)
            ELSE archivedUpto.Valid /\ TrimSpace(archivedUpto.v) # <<>>
    IN  decide(parseArchivedValue(archivedUpToOrder), parseArchivedValue(archivedUpto))

\* The raw text of $.extra.tags is one of
\*   [kind |-> "null"]                       SQL NULL (no tags key)
\*   [kind |-> "blank"]                      empty or white-space text
\*   [kind |-> "array", items |-> <<..>>]    a JSON array of strings
\*   [kind |-> "other", fav |-> b]           any other text; fav: its lower-cased
\*                                           form contains "favourite"
\* jsonUnmarshalStrings succeeds exactly on the JSON arrays of strings.
jsonUnmarshalStrings(raw) ==
    IF raw.kind = "array" THEN [tags |-> raw.items, ok |-> TRUE]
    ELSE [tags |-> <<>>, ok |-> FALSE]

parseTags(raw) ==
    IF raw.kind \in {"null", "blank"} THEN <<>>
    ELSE IF jsonUnmarshalStrings(raw).ok THEN jsonUnmarshalStrings(raw).tags
    ELSE IF raw.fav THEN <<"favourite">>
    ELSE <<>>

\* strings.EqualFold(tag, "favourite") on the tag spellings of the model
FoldTag(tag) ==
    CASE tag = "Favourite" -> "favourite"
      [] tag = "FAVOURITE" -> "favourite"
      [] OTHER -> tag

containsTag(tags, target) == \E i \in DOMAIN tags : FoldTag(tags[i]) = FoldTag(target)

LabelAll == "all"
LabelInbox == "inbox"
LabelArchive == "archive"
LabelFavourite == "favourite"
LabelUnread == "unread"

\* Variant: the inbox is the non-archived conversations, favourite or not
shouldIncludeThreadInboxByArchiveOnly(label, thread, archived, includeLowPriority) ==
    IF ~includeLowPriority /\ thread.IsLowPriority THEN FALSE
    ELSE CASE label = LabelInbox -> ~archived
           [] label = LabelArchive -> archived /\ ~containsTag(thread.Tags, "favourite")
           [] label = LabelFavourite -> containsTag(thread.Tags, "favourite")
           [] label = LabelUnread -> thread.IsUnread \/ thread.IsMarkedUnread
           [] OTHER -> TRUE

\* Variant: the archive is the archived conversations, favourite or not
shouldIncludeThreadArchiveKeepsFavourite(label, thread, archived, includeLowPriority) ==
    IF ~includeLowPriority /\ thread.IsLowPriority THEN FALSE
    ELSE CASE label = LabelInbox -> containsTag(thread.Tags, "favourite") \/ ~archived
           [] label = LabelArchive -> archived
           [] label = LabelFavourite -> containsTag(thread.Tags, "favourite")
           [] label = LabelUnread -> thread.IsUnread \/ thread.IsMarkedUnread
           [] OTHER -> TRUE

\* Variant: the low-priority rule is applied to the inbox only
shouldIncludeThreadLowPriorityInboxOnly(label, thread, archived, includeLowPriority) ==
    CASE label = LabelInbox ->
            /\ includeLowPriority \/ ~thread.IsLowPriority
            /\ containsTag(thread.Tags, "favourite") \/ ~archived
      [] label = LabelArchive ->
            archived /\ ~containsTag(thread.Tags, "favourite")
      [] label = LabelFavourite -> containsTag(thread.Tags, "favourite")
      [] label = LabelUnread -> thread.IsUnread \/ thread.IsMarkedUnread
      [] OTHER -> TRUE

\* Variant: the unread label looks at the unread flag only
shouldIncludeThreadUnreadFlagOnly(label, thread, archived, includeLowPriority) ==
    IF ~includeLowPriority /\ thread.IsLowPriority THEN FALSE
    ELSE CASE label = LabelInbox -> containsTag(thread.Tags, "favourite") \/ ~archived
           [] label = LabelArchive -> archived /\ ~containsTag(thread.Tags, "favourite")
           [] label = LabelFavourite -> containsTag(thread.Tags, "favourite")
           [] label = LabelUnread -> thread.IsUnread
           [] OTHER -> TRUE

\* Variant: the archive compares the tag's spelling exactly
shouldIncludeThreadArchiveExactTag(label, thread, archived, includeLowPriority) ==
    IF ~includeLowPriority /\ thread.IsLowPriority THEN FALSE
    ELSE CASE label = LabelInbox -> containsTag(thread.Tags, "favourite") \/ ~archived
           [] label = LabelArchive -> archived /\ "favourite" \notin Range(thread.Tags)
           [] label = LabelFavourite -> containsTag(thread.Tags, "favourite")
           [] label = LabelUnread -> thread.IsUnread \/ thread.IsMarkedUnread
           [] OTHER -> TRUE

shouldIncludeThread(label, thread, archived, includeLowPriority) ==
    IF ~includeLowPriority /\ thread.IsLowPriority THEN FALSE
    ELSE CASE label = LabelInbox ->
                IF containsTag(thread.Tags, "favourite") THEN TRUE
                ELSE IF archived THEN FALSE
                ELSE TRUE
           [] label = LabelArchive ->
                IF ~archived THEN FALSE
                ELSE IF containsTag(thread.Tags, "favourite") THEN FALSE
                ELSE TRUE
           [] label = LabelFavourite -> containsTag(thread.Tags, "favourite")
           [] label = LabelUnread -> thread.IsUnread \/ thread.IsMarkedUnread
           [] label = LabelAll -> TRUE
           [] OTHER -> TRUE

unixMillis(ms) == IF ms = 0 THEN ZeroTime ELSE UnixMilli(ms)

unixMillisOrZero(value) == IF ~value.Valid \/ value.v = 0 THEN ZeroTime ELSE UnixMilli(value.v)

RECURSIVE maxTimeFrom(_, _)
maxTimeFrom(latest, times) ==
    IF times = <<>> THEN latest
    ELSE maxTimeFrom(IF After(Head(times), latest) THEN Head(times) ELSE latest, Tail(times))

\* Variant: the first of the times that is set, as COALESCE would choose
maxTimeFirstSet(times) ==
    LET set(t) == ~t.isZero
        found(nz) == IF nz = <<>> THEN ZeroTime ELSE nz[1]
    IN  found(SelectSeq(times, set))

maxTime(times) == maxTimeFrom(ZeroTime, times)

(***************************************************************************)
(* Name resolver (BridgeLookup)                                            *)
(*                                                                         *)
(* What the environment does during one operation is an argument benv:     *)
(*   benv.fail[path]  how a query of that store ends if it is issued:      *)
(*                    "ok", "open" (sql.Open fails), "portal" or "ghost"   *)
(*                    (that SELECT fails with something other than         *)
(*                    sql."sql: no rows in result set")                                       *)
(*   benv.order       the order in which Go's map iteration visits the     *)
(*                    discovered stores                                    *)
(***************************************************************************)
\* strings.TrimPrefix(strings.ToLower(strings.TrimSpace(p)), "local-") on the
\* account and directory names of the model
normalizePlatform(platform) ==
    CASE platform = "local-whatsapp" -> "whatsapp"
      [] platform = "WhatsApp" -> "whatsapp"
      [] platform = " whatsapp " -> "whatsapp"
      [] platform = "local-telegram" -> "telegram"
      [] OTHER -> platform

\* Variant: the handle is closed at the end of the function instead of by a
\* deferred call, so the paths that return early leave it open
queryBridgeNameClosesAtEnd(files, dbPath, roomID, fail) ==
    LET db == files[dbPath]
        both == <<<<"open", dbPath>>, <<"close", dbPath>>>>
        left == <<<<"open", dbPath>>>>
        miss == [name |-> <<>>, ok |-> FALSE, err |-> NoErr, events |-> left]
    IN  IF fail = "open"
        THEN [name |-> <<>>, ok |-> FALSE, err |-> <<"bridge", "open", dbPath>>, events |-> <<>>]
        ELSE IF fail = "portal"
        THEN [name |-> <<>>, ok |-> FALSE, err |-> <<"bridge", "portal", dbPath>>, events |-> left]
        ELSE IF roomID \notin DOMAIN db.portal \/ ~db.portal[roomID].Valid THEN miss
        ELSE IF fail = "ghost"
        THEN [name |-> <<>>, ok |-> FALSE, err |-> <<"bridge", "ghost", dbPath>>, events |-> left]
        ELSE LET otherUser == db.portal[roomID].v
             IN  IF otherUser \notin DOMAIN db.ghost \/ db.ghost[otherUser] = <<>> THEN miss
                 ELSE IF TrimSpace(db.ghost[otherUser]) = <<>> THEN miss
                 ELSE [name |-> TrimSpace(db.ghost[otherUser]), ok |-> TRUE, err |-> NoErr,
                       events |-> both]

\* The result of queryBridgeName and the handle events it causes.
queryBridgeName(files, dbPath, roomID, fail) ==
    LET db == files[dbPath]
        both == <<<<"open", dbPath>>, <<"close", dbPath>>>>
        miss == [name |-> <<>>, ok |-> FALSE, err |-> NoErr, events |-> both]
    IN  IF fail = "open"
        THEN [name |-> <<>>, ok |-> FALSE, err |-> <<"bridge", "open", dbPath>>, events |-> <<>>]
        ELSE IF fail = "portal"
        THEN [name |-> <<>>, ok |-> FALSE, err |-> <<"bridge", "portal", dbPath>>, events |-> both]
        ELSE IF roomID \notin DOMAIN db.portal \/ ~db.portal[roomID].Valid THEN miss
        ELSE IF fail = "ghost"
        THEN [name |-> <<>>, ok |-> FALSE, err |-> <<"bridge", "ghost", dbPath>>, events |-> both]
        ELSE LET otherUser == db.portal[roomID].v
             IN  IF otherUser \notin DOMAIN db.ghost \/ db.ghost[otherUser] = <<>> THEN miss
                 ELSE IF TrimSpace(db.ghost[otherUser]) = <<>> THEN miss
                 ELSE [name |-> TrimSpace(db.ghost[otherUser]), ok |-> TRUE, err |-> NoErr,
                       events |-> both]

\* cache[roomID] = name
CachePut(c, roomID, name) == [r \in DOMAIN c \cup {roomID} |-> IF r = roomID THEN name ELSE c[r]]

\* The loop "for _, path := range b.platformDBs" from position i of the visiting order.
RECURSIVE lookupAll(_, _, _, _, _, _, _)
lookupAll(b, files, c, roomID, benv, i, events) ==
    LET queried(q) ==
            IF q.err # NoErr
            THEN [name |-> <<>>, ok |-> FALSE, err |-> q.err, cache |-> c,
                  events |-> events \o q.events]
            ELSE IF q.ok
            THEN [name |-> q.name, ok |-> TRUE, err |-> NoErr,
                  cache |-> CachePut(c, roomID, q.name), events |-> events \o q.events]
            ELSE lookupAll(b, files, c, roomID, benv, i + 1, events \o q.events)
        visit(path) == queried(queryBridgeName(files, path, roomID, benv.fail[path]))
    IN  IF i > Len(benv.order)
        THEN [name |-> <<>>, ok |-> FALSE, err |-> NoErr,
              cache |-> CachePut(c, roomID, <<>>), events |-> events]
        ELSE visit(b.platformDBs[benv.order[i]])

\* Variant: a lookup that ends in a store error is remembered as "no name"
LookupDMNameCachesErrors(b, files, c, roomID, accountID, benv) ==
    LET none == [name |-> <<>>, ok |-> FALSE, err |-> NoErr, cache |-> c, events |-> <<>>]
        key == normalizePlatform(accountID)
        candidate == IF accountID # "" /\ key \in DOMAIN b.platformDBs
                     THEN b.platformDBs[key] ELSE ""
        queried(q) == [name |-> q.name, ok |-> q.ok, err |-> q.err,
                       cache |-> CachePut(c, roomID, q.name), events |-> q.events]
        remembered(r) == IF r.err # NoErr THEN [r EXCEPT !.cache = CachePut(c, roomID, <<>>)] ELSE r
    IN  IF ~b.present \/ DOMAIN b.platformDBs = {} THEN none
        ELSE IF roomID \in DOMAIN c
        THEN (IF c[roomID] = <<>> THEN none ELSE [none EXCEPT !.name = c[roomID], !.ok = TRUE])
        ELSE IF candidate # ""
        THEN remembered(queried(queryBridgeName(files, candidate, roomID, benv.fail[candidate])))
        ELSE remembered(lookupAll(b, files, c, roomID, benv, 1, <<>>))

\* Variant: when the account's own store knows no name, the other stores are asked
LookupDMNameFallsThrough(b, files, c, roomID, accountID, benv) ==
    LET none == [name |-> <<>>, ok |-> FALSE, err |-> NoErr, cache |-> c, events |-> <<>>]
        key == normalizePlatform(accountID)
        candidate == IF accountID # "" /\ key \in DOMAIN b.platformDBs
                     THEN b.platformDBs[key] ELSE ""
        queried(q) ==
            IF q.err # NoErr
            THEN [name |-> <<>>, ok |-> FALSE, err |-> q.err, cache |-> c, events |-> q.events]
            ELSE IF q.ok
            THEN [name |-> q.name, ok |-> q.ok, err |-> NoErr,
                  cache |-> CachePut(c, roomID, q.name), events |-> q.events]
            ELSE lookupAll(b, files, c, roomID, benv, 1, q.events)
    IN  IF ~b.present \/ DOMAIN b.platformDBs = {} THEN none
        ELSE IF roomID \in DOMAIN c
        THEN (IF c[roomID] = <<>> THEN none ELSE [none EXCEPT !.name = c[roomID], !.ok = TRUE])
        ELSE IF candidate # ""
        THEN queried(queryBridgeName(files, candidate, roomID, benv.fail[candidate]))
        ELSE lookupAll(b, files, c, roomID, benv, 1, <<>>)

\* BridgeLookup.LookupDMName on the resolver b with cache c: the returned
\* (name, ok, err), the cache afterwards and the handle events.
LookupDMName(b, files, c, roomID, accountID, benv) ==
    LET none == [name |-> <<>>, ok |-> FALSE, err |-> NoErr, cache |-> c, events |-> <<>>]
        key == normalizePlatform(accountID)
        candidate == IF accountID # "" /\ key \in DOMAIN b.platformDBs
                     THEN b.platformDBs[key] ELSE ""
        queried(q) ==
            IF q.err # NoErr
            THEN [name |-> <<>>, ok |-> FALSE, err |-> q.err, cache |-> c, events |-> q.events]
            ELSE [name |-> q.name, ok |-> q.ok, err |-> NoErr,
                  cache |-> CachePut(c, roomID, q.name), events |-> q.events]
    IN  IF ~b.present \/ DOMAIN b.platformDBs = {} THEN none
        ELSE IF roomID \in DOMAIN c
        THEN (IF c[roomID] = <<>> THEN none ELSE [none EXCEPT !.name = c[roomID], !.ok = TRUE])
        ELSE IF candidate # ""
        THEN queried(queryBridgeName(files, candidate, roomID, benv.fail[candidate]))
        ELSE lookupAll(b, files, c, roomID, benv, 1, <<>>)

(***************************************************************************)
(* Text renderer                                                           *)
(*                                                                         *)
(* The raw message column (COALESCE(message, '')) is one of                *)
(*   [kind |-> "empty"]                  NULL, empty or white space         *)
(*   [kind |-> "object", fields |-> f]   a JSON object; f maps each key to  *)
(*                                       [str |-> TRUE, s |-> text] or, for *)
(*                                       a value that is no string,         *)
(*                                       [str |-> FALSE]                    *)
(*   [kind |-> "string", s |-> text]     a JSON string                      *)
(*   [kind |-> "other", raw |-> text]    any other JSON value               *)
(*   [kind |-> "invalid", raw |-> text]  text that is not JSON              *)
(***************************************************************************)
TEXT == <<"T", "E", "X", "T">>

FILE == <<"F", "I", "L", "E">>

HIDDEN == <<"H", "I", "D", "D", "E", "N">>

REACTION == <<"R", "E", "A", "C", "T", "I", "O", "N">>

FormatPlain == "plain"
FormatRich == "rich"

\* firstString(payload, keys...): the trimmed value of the first key that holds a string
RECURSIVE firstString(_, _)
firstString(fields, keys) ==
    IF keys = <<>> THEN <<>>
    ELSE IF Head(keys) \in DOMAIN fields /\ fields[Head(keys)].str
    THEN TrimSpace(fields[Head(keys)].s)
    ELSE firstString(fields, Tail(keys))

formatWithOptionalText(prefix, text) ==
    IF TrimSpace(text) = <<>> THEN prefix ELSE prefix \o <<" ">> \o TrimSpace(text)

\* fmt.Sprintf("[%s]", s) and fmt.Sprintf("[<label>: %s]", s)
Bracket(s) == <<"[">> \o s \o <<"]">>

Labelled(label, s) == <<"[">> \o label \o <<":", " ">> \o s \o <<"]">>

fallbackMessageText(value, msgType, rich) ==
    IF msgType = TEXT THEN value
    ELSE IF ~rich THEN value
    ELSE IF TrimSpace(value) # <<>> /\ msgType # <<>>
    THEN formatWithOptionalText(Bracket(msgType), value)
    ELSE Bracket(IF msgType = <<>> THEN <<"M", "E", "S", "S", "A", "G", "E">> ELSE msgType)

\* Variant: a file without a name is rendered without its URL
renderPayloadFileNeedsName(fields, msgType, rich) ==
    LET text == firstString(fields, <<"body", "text">>)
        url == firstString(fields, <<"url">>)
        filename == firstString(fields, <<"filename", "name">>)
    IN  IF ~rich \/ msgType = TEXT THEN text
        ELSE IF msgType = FILE
        THEN (IF filename # <<>> /\ url # <<>>
              THEN Labelled(<<"F", "i", "l", "e">>, filename \o <<" ", "-", " ">> \o url)
              ELSE IF filename # <<>> THEN Labelled(<<"F", "i", "l", "e">>, filename)
              ELSE <<"[", "F", "i", "l", "e", "]">>)
        ELSE fallbackMessageText(text, msgType, rich)

renderPayload(fields, msgType, rich) ==
    LET text == firstString(fields, <<"body", "text">>)
        url == firstString(fields, <<"url">>)
        filename == firstString(fields, <<"filename", "name">>)
        geo == firstString(fields, <<"geo_uri", "geoUri">>)
        contact == firstString(fields, <<"display_name", "displayName", "name">>)
    IN  IF ~rich \/ msgType = TEXT THEN text
        ELSE CASE msgType = <<"I", "M", "A", "G", "E">> -> formatWithOptionalText(<<"[", "I", "m", "a", "g", "e", "]">>, text)
               [] msgType = <<"V", "I", "D", "E", "O">> -> formatWithOptionalText(<<"[", "V", "i", "d", "e", "o", "]">>, text)
               [] msgType = <<"A", "U", "D", "I", "O">> ->
                    IF url # <<>> THEN Labelled(<<"A", "u", "d", "i", "o">>, url) ELSE <<"[", "A", "u", "d", "i", "o", " ", "m", "e", "s", "s", "a", "g", "e", "]">>
               [] msgType = FILE ->
                    IF filename # <<>> /\ url # <<>>
                    THEN Labelled(<<"F", "i", "l", "e">>, filename \o <<" ", "-", " ">> \o url)
                    ELSE IF filename # <<>> THEN Labelled(<<"F", "i", "l", "e">>, filename)
                    ELSE IF url # <<>> THEN Labelled(<<"F", "i", "l", "e">>, url)
                    ELSE <<"[", "F", "i", "l", "e", "]">>
               [] msgType = <<"L", "O", "C", "A", "T", "I", "O", "N">> ->
                    IF geo # <<>> THEN Labelled(<<"L", "o", "c", "a", "t", "i", "o", "n">>, geo) ELSE <<"[", "L", "o", "c", "a", "t", "i", "o", "n", "]">>
               [] msgType = <<"C", "O", "N", "T", "A", "C", "T">> ->
                    IF contact # <<>> THEN Labelled(<<"C", "o", "n", "t", "a", "c", "t">>, contact) ELSE <<"[", "C", "o", "n", "t", "a", "c", "t", "]">>
               [] msgType = <<"S", "T", "I", "C", "K", "E", "R">> ->
                    IF url # <<>> THEN Labelled(<<"S", "t", "i", "c", "k", "e", "r">>, url) ELSE <<"[", "S", "t", "i", "c", "k", "e", "r", "]">>
               [] OTHER -> fallbackMessageText(text, msgType, rich)

extractMessageText(rawMessage, msgType, rich) ==
    LET trimmed == ToUpper(TrimSpace(msgType))
        upperType == IF trimmed = <<>> THEN TEXT ELSE trimmed
    IN  CASE rawMessage.kind = "empty" -> <<>>
          [] rawMessage.kind = "invalid" -> fallbackMessageText(rawMessage.raw, upperType, rich)
          [] rawMessage.kind = "object" -> renderPayload(rawMessage.fields, upperType, rich)
          [] rawMessage.kind = "string" ->
                IF upperType = TEXT THEN rawMessage.s
                ELSE fallbackMessageText(rawMessage.s, upperType, rich)
          [] OTHER -> fallbackMessageText(rawMessage.raw, upperType, rich)

\* Variant: plain mode renders the payload the way rich mode does
ResolveMessageTextPlainLeaks(rawMessage, msgType, textContent, format) ==
    LET orContent(rich) == IF TrimSpace(rich) # <<>> THEN rich ELSE textContent
    IN  IF format = FormatPlain
        THEN (IF TrimSpace(textContent) # <<>> THEN textContent
              ELSE extractMessageText(rawMessage, msgType, TRUE))
        ELSE orContent(extractMessageText(rawMessage, msgType, TRUE))

ResolveMessageText(rawMessage, msgType, textContent, format) ==
    LET orContent(rich) == IF TrimSpace(rich) # <<>> THEN rich ELSE textContent
    IN  IF format = FormatPlain
        THEN (IF TrimSpace(textContent) # <<>> THEN textContent
              ELSE extractMessageText(rawMessage, msgType, FALSE))
        ELSE orContent(extractMessageText(rawMessage, msgType, TRUE))

(***************************************************************************)
(* Query engine: participants and display names                            *)
(*                                                                         *)
(* The result of an operator that may touch the name cache carries the     *)
(* cache afterwards and the handle events it caused.                       *)
(***************************************************************************)
\* strings.TrimSpace on the conversation type tags of the model
TrimSpaceTag(t) ==
    CASE t = " dm " -> "dm"
      [] t = " " -> ""
      [] OTHER -> t

\* uniqueStrings: first occurrences, empty strings dropped
RECURSIVE uniqueStrings(_)
uniqueStrings(values) ==
    IF values = <<>> THEN <<>>
    ELSE LET init == uniqueStrings(SubSeq(values, 1, Len(values) - 1))
             v == values[Len(values)]
         IN  IF v = "" \/ v \in Range(init) THEN init ELSE Append(init, v)

\* One scanned row of the participants query
participantOf(row) ==
    LET full == TrimSpace(StringOf(row.full_name))
        nick == TrimSpace(StringOf(row.nickname))
    IN  [ID |-> row.id,
         Name |-> IF full # <<>> THEN full ELSE IF nick # <<>> THEN nick ELSE row.id,
         IsSelf |-> row.is_self.Valid /\ row.is_self.v # 0]

RECURSIVE participantsOfRoom(_, _)
participantsOfRoom(rows, roomID) ==
    IF rows = <<>> THEN <<>>
    ELSE IF Head(rows).room_id = roomID
    THEN <<participantOf(Head(rows))>> \o participantsOfRoom(Tail(rows), roomID)
    ELSE participantsOfRoom(Tail(rows), roomID)

\* participantsByRoom[roomID] of the map the method returns (nil for rooms not asked for)
participantsByRoom(rows, roomIDs, roomID) ==
    IF roomID \in Range(uniqueStrings(roomIDs)) THEN participantsOfRoom(rows, roomID) ELSE <<>>

\* Whether participantsByRoom issues its query
participantsQueried(roomIDs) == uniqueStrings(roomIDs) # <<>>

RECURSIVE nonSelfNames(_)
nonSelfNames(ps) ==
    IF ps = <<>> THEN <<>>
    ELSE IF Head(ps).IsSelf THEN nonSelfNames(Tail(ps))
    ELSE <<Head(ps).Name>> \o nonSelfNames(Tail(ps))

\* strings.Join(names, ", ")
RECURSIVE Join(_)
Join(names) ==
    IF names = <<>> THEN <<>>
    ELSE IF Len(names) = 1 THEN names[1]
    ELSE names[1] \o <<",", " ">> \o Join(Tail(names))

\* %d of a non-negative number
RECURSIVE Itoa(_)
Itoa(n) == IF n < 10 THEN <<Digits[n + 1]>> ELSE Itoa(n \div 10) \o <<Digits[(n % 10) + 1]>>

Unknown == <<"(", "u", "n", "k", "n", "o", "w", "n", ")">>

IsDirect(type) == type = "single" \/ type = "dm"

\* Variant: the resolver is asked about every direct conversation, before the
\* title and the name are looked at
displayNameResolverFirst(b, files, c, thread, ps, benv) ==
    LET consult == b.present /\ IsDirect(thread.Type)
        resolve(l, nonSelf) ==
            LET rest(n) == [name |-> n, cache |-> IF consult THEN l.cache ELSE c,
                            events |-> IF consult THEN l.events ELSE <<>>]
            IN  IF consult /\ l.err = NoErr /\ l.ok THEN rest(l.name)
                ELSE IF thread.Title # <<>> THEN rest(thread.Title)
                ELSE IF thread.Name # <<>> THEN rest(thread.Name)
                ELSE IF nonSelf = <<>> THEN rest(Unknown)
                ELSE IF IsDirect(thread.Type) THEN rest(nonSelf[1])
                ELSE IF Len(nonSelf) <= 3 THEN rest(Join(nonSelf))
                ELSE rest(Join(SubSeq(nonSelf, 1, 3)) \o <<" ", "+">> \o Itoa(Len(nonSelf) - 3))
    IN  resolve(LookupDMName(b, files, c, thread.ID, thread.AccountID, benv),
                nonSelfNames(ps))

\* Variant: the remainder count is the number of all participants other than
\* the user
displayNameCountsAll(b, files, c, thread, ps, benv) ==
    LET same(n) == [name |-> n, cache |-> c, events |-> <<>>]
        consult == b.present /\ IsDirect(thread.Type)
        resolve(l, nonSelf) ==
            LET rest(n) == [name |-> n, cache |-> IF consult THEN l.cache ELSE c,
                            events |-> IF consult THEN l.events ELSE <<>>]
            IN  IF consult /\ l.err = NoErr /\ l.ok THEN rest(l.name)
                ELSE IF nonSelf = <<>> THEN rest(Unknown)
                ELSE IF IsDirect(thread.Type) THEN rest(nonSelf[1])
                ELSE IF Len(nonSelf) <= 3 THEN rest(Join(nonSelf))
                ELSE rest(Join(SubSeq(nonSelf, 1, 3)) \o <<" ", "+">> \o Itoa(Len(nonSelf)))
    IN  IF thread.Title # <<>> THEN same(thread.Title)
        ELSE IF thread.Name # <<>> THEN same(thread.Name)
        ELSE resolve(LookupDMName(b, files, c, thread.ID, thread.AccountID, benv),
                     nonSelfNames(ps))

\* Store.displayName: [name, cache, events]
displayName(b, files, c, thread, ps, benv) ==
    LET same(n) == [name |-> n, cache |-> c, events |-> <<>>]
        consult == b.present /\ IsDirect(thread.Type)
        \* from "if s.bridge != nil && isDirect" on: l is what LookupDMName
        \* returns if it is called
        resolve(l, nonSelf) ==
            LET rest(n) == [name |-> n, cache |-> IF consult THEN l.cache ELSE c,
                            events |-> IF consult THEN l.events ELSE <<>>]
            IN  IF consult /\ l.err = NoErr /\ l.ok THEN rest(l.name)
                ELSE IF nonSelf = <<>> THEN rest(Unknown)
                ELSE IF IsDirect(thread.Type) THEN rest(nonSelf[1])
                ELSE IF Len(nonSelf) <= 3 THEN rest(Join(nonSelf))
                ELSE rest(Join(SubSeq(nonSelf, 1, 3)) \o <<" ", "+">> \o Itoa(Len(nonSelf) - 3))
    IN  IF thread.Title # <<>> THEN same(thread.Title)
        ELSE IF thread.Name # <<>> THEN same(thread.Name)
        ELSE resolve(LookupDMName(b, files, c, thread.ID, thread.AccountID, benv),
                     nonSelfNames(ps))

(***************************************************************************)
(* Query engine: ListThreads and GetThread                                 *)
(*                                                                         *)
(* qenv[kind] is the error with which a query of that kind on the primary  *)
(* handle ends (NoErr: it succeeds).                                       *)
(***************************************************************************)
defaultLimit == 50

\* An entry of the query log: the kind of query and either the ids of the rows
\* it returned or the error it failed with (qenv[kind])
Q(kind, rows, qenv) ==
    IF qenv[kind] = NoErr THEN [kind |-> kind, rows |-> rows, err |-> NoErr]
    ELSE [kind |-> kind, rows |-> <<>>, err |-> qenv[kind]]

AtomOf(ns) == IF ns.Valid THEN ns.v ELSE ""

effectiveLimit(limit) == IF limit <= 0 THEN defaultLimit ELSE limit

effectiveLabel(label) == IF label = "" THEN LabelAll ELSE label

\* ids of the messages of a room whose type is none of excluded
RoomMessages(msgs, roomID, excluded) ==
    {id \in DOMAIN msgs : msgs[id].roomID = roomID /\ msgs[id].type \notin excluded}

\* (SELECT MAX(timestamp) ... type NOT IN ('HIDDEN','REACTION'))
lastMessageTime(msgs, roomID) ==
    LET ids == RoomMessages(msgs, roomID, {HIDDEN, REACTION})
    IN  IF ids = {} THEN Null ELSE Val(SetMax({msgs[id].timestamp : id \in ids}))

\* (SELECT MAX(hsOrder) ... type != 'HIDDEN')
latestHsOrder(msgs, roomID) ==
    LET ids == RoomMessages(msgs, roomID, {HIDDEN})
    IN  IF ids = {} THEN Null ELSE Val(SetMax({msgs[id].hsOrder : id \in ids}))

\* (SELECT COUNT(*) ... type NOT IN ('HIDDEN','REACTION'))
totalMessages(msgs, roomID) == Val(Cardinality(RoomMessages(msgs, roomID, {HIDDEN, REACTION})))

\* b.lastOpenTime of the LEFT JOIN
lastOpenTime(crumbs, id) == IF id \in DOMAIN crumbs THEN crumbs[id] ELSE Null

\* ORDER BY COALESCE(lastMessageTime, lastOpenTime, t.timestamp)
threadOrderKey(tbl, crumbs, msgs, id) ==
    LET m == lastMessageTime(msgs, id)
        o == lastOpenTime(crumbs, id)
    IN  IF m.Valid THEN m.v ELSE IF o.Valid THEN o.v ELSE tbl[id].timestamp

\* The WHERE clause of ListThreads: account and day filters
threadSelected(tbl, id, opts, cutoff) ==
    /\ (opts.AccountID # "" => (tbl[id].accountID.Valid /\ tbl[id].accountID.v = opts.AccountID))
    /\ (opts.Days > 0 => tbl[id].timestamp >= cutoff)

\* The orders in which the storage may return the selected rows: descending in
\* the ORDER BY key, rows of equal key in any order.
threadRowOrders(tbl, crumbs, msgs, opts, cutoff) ==
    LET sel == {id \in DOMAIN tbl : threadSelected(tbl, id, opts, cutoff)}
    IN  {s \in Perms(sel) : \A i, j \in DOMAIN s :
            i < j => threadOrderKey(tbl, crumbs, msgs, s[i]) >= threadOrderKey(tbl, crumbs, msgs, s[j])}

\* The Thread built from one scanned row, before the display name is resolved;
\* archived is the value handed to shouldIncludeThread.
scanThread(tbl, crumbs, msgs, id, withStats) ==
    LET row == tbl[id]
        lastOpen == lastOpenTime(crumbs, id)
        lastMessage == lastMessageTime(msgs, id)
        total == totalMessages(msgs, id)
    IN  [ID |-> id,
         AccountID |-> AtomOf(row.accountID),
         Title |-> TrimSpace(StringOf(row.title)),
         Name |-> TrimSpace(StringOf(row.name)),
         Type |-> TrimSpaceTag(AtomOf(row.type)),
         DisplayName |-> <<>>,
         IsUnread |-> row.isUnread.Valid /\ row.isUnread.v # 0,
         IsMarkedUnread |-> row.isMarkedUnread.Valid /\ row.isMarkedUnread.v # 0,
         IsLowPriority |-> row.isLowPriority.Valid /\ row.isLowPriority.v # 0,
         UnreadCount |-> IF row.unreadCount.Valid THEN row.unreadCount.v ELSE 0,
         UnreadMentions |-> IF row.unreadMentionsCount.Valid THEN row.unreadMentionsCount.v ELSE 0,
         Tags |-> parseTags(row.tags),
         LastOpen |-> IF withStats THEN unixMillisOrZero(lastOpen) ELSE ZeroTime,
         LastMessage |-> IF withStats THEN unixMillisOrZero(lastMessage) ELSE ZeroTime,
         LastActivity |-> maxTime(<<unixMillisOrZero(lastMessage), unixMillisOrZero(lastOpen),
                                    unixMillis(row.timestamp)>>),
         IsArchived |-> computeArchived(row.isArchivedUpto, row.isArchivedUpToOrder,
                                        latestHsOrder(msgs, id), lastMessage),
         TotalMessages |-> IF withStats /\ total.Valid THEN total.v ELSE 0,
         Participants |-> <<>>]

\* The loop over the scanned rows: the threads that pass shouldIncludeThread
RECURSIVE includedThreads(_, _, _, _, _)
includedThreads(tbl, crumbs, msgs, rows, opts) ==
    LET filter(t, more) ==
            IF shouldIncludeThread(effectiveLabel(opts.Label), t, t.IsArchived,
                                   opts.IncludeLowPriority)
            THEN <<t>> \o more ELSE more
    IN  IF rows = <<>> THEN <<>>
        ELSE filter(scanThread(tbl, crumbs, msgs, Head(rows), opts.WithStats),
                    includedThreads(tbl, crumbs, msgs, Tail(rows), opts))

\* The loop "for i := range threads": display names, and participants on request
RECURSIVE nameThreads(_, _, _, _, _, _, _, _)
nameThreads(b, files, c, ths, prows, withParticipants, benv, events) ==
    LET prepend(t, more) == [more EXCEPT !.threads = <<t>> \o more.threads]
        name(t, ps, d) ==
            prepend([t EXCEPT !.DisplayName = d.name,
                              !.Participants = IF withParticipants THEN ps ELSE <<>>],
                    nameThreads(b, files, d.cache, Tail(ths), prows, withParticipants, benv,
                                events \o d.events))
        visit(t, ps) == name(t, ps, displayName(b, files, c, t, ps, benv))
    IN  IF ths = <<>> THEN [threads |-> <<>>, cache |-> c, events |-> events]
        ELSE visit(Head(ths), participantsOfRoom(prows, Head(ths).ID))

IDsOf(ths) == [i \in DOMAIN ths |-> ths[i].ID]

\* Variant: the row limit is applied to the conversations the label filter kept
ListThreadsLimitsAfterFilter(tbl, crumbs, msgs, prows, b, files, c, opts, sorted, qenv, benv) ==
    LET rows == sorted
        q1 == <<Q("threads", rows, qenv)>>
        fail(e, q) == [ret |-> <<>>, err |-> e, cache |-> c, queries |-> q, events |-> <<>>]
        result(n, q) == [ret |-> n.threads, err |-> NoErr, cache |-> n.cache, queries |-> q,
                         events |-> n.events]
        finish(kept, askP) ==
            IF askP /\ qenv["participants"] # NoErr
            THEN fail(qenv["participants"], Append(q1, Q("participants", <<>>, qenv)))
            ELSE result(nameThreads(b, files, c, kept, prows, opts.WithParticipants, benv, <<>>),
                        IF askP THEN Append(q1, Q("participants", <<>>, qenv)) ELSE q1)
        scanned(kept) == finish(kept, participantsQueried(IDsOf(kept)))
    IN  IF qenv["threads"] # NoErr THEN fail(qenv["threads"], q1)
        ELSE scanned(Take(includedThreads(tbl, crumbs, msgs, rows, opts),
                          effectiveLimit(opts.Limit)))

\* Store.ListThreads with the storage returning the selected rows in order
\* sorted: [ret, err, cache, queries, events]
ListThreads(tbl, crumbs, msgs, prows, b, files, c, opts, sorted, qenv, benv) ==
    LET rows == Take(sorted, effectiveLimit(opts.Limit))
        q1 == <<Q("threads", rows, qenv)>>
        fail(e, q) == [ret |-> <<>>, err |-> e, cache |-> c, queries |-> q, events |-> <<>>]
        result(n, q) == [ret |-> n.threads, err |-> NoErr, cache |-> n.cache, queries |-> q,
                         events |-> n.events]
        \* after the scan loop, with the threads it kept
        finish(kept, askP) ==
            IF askP /\ qenv["participants"] # NoErr
            THEN fail(qenv["participants"], Append(q1, Q("participants", <<>>, qenv)))
            ELSE result(nameThreads(b, files, c, kept, prows, opts.WithParticipants, benv, <<>>),
                        IF askP THEN Append(q1, Q("participants", <<>>, qenv)) ELSE q1)
        scanned(kept) == finish(kept, participantsQueried(IDsOf(kept)))
    IN  IF qenv["threads"] # NoErr THEN fail(qenv["threads"], q1)
        ELSE scanned(includedThreads(tbl, crumbs, msgs, rows, opts))

(***************************************************************************)
(* Query engine: HasFTS, SearchMessages and its context windows            *)
(*                                                                         *)
(* senv is what the storage leaves open during one search:                 *)
(*   senv.tie    "asc" or "desc": rows that the ORDER BY clause leaves     *)
(*               equal come in ascending or descending id                  *)
(*   senv.rank   "flat" or "byId": bm25 gives every match the same rank,   *)
(*               or a better (lower) rank to a higher id                   *)
(***************************************************************************)
\* One hour, in the time unit of the model
defaultContextWindow == 1

\* Variant: every error of the MATCH query counts as "index unavailable"
isFTSErrorAny(e) == e # NoErr

\* strings.ToLower(err.Error()) contains "no such module: fts5" or
\* "no such table: mx_room_messages_fts", on the error texts of the model
isFTSError(e) ==
    /\ e # NoErr
    /\ e \in {"no such module: fts5", "no such table: mx_room_messages_fts",
              "SQL logic error: no such table: MX_ROOM_MESSAGES_FTS"}

QueryErrors ==
    {"no such module: fts5", "no such table: mx_room_messages_fts",
     "fts5: syntax error near \"\"", "no such table: mx_room_messages", "disk I/O error"}

IsAlnum(c) == IsDigit(c) \/ LowerChar(c) # UpperChar(c)

\* The tokens the index's tokenizer cuts a text into: its maximal runs of
\* letters and digits, in lower case
Tokens(text) ==
    LET t == ToLower(text)
    IN  {SubSeq(t, i, j) : <<i, j>> \in
            {ij \in (DOMAIN t) \X (DOMAIN t) :
                /\ ij[1] <= ij[2]
                /\ \A k \in ij[1]..ij[2] : IsAlnum(t[k])
                /\ (ij[1] = 1 \/ ~IsAlnum(t[ij[1] - 1]))
                /\ (ij[2] = Len(t) \/ ~IsAlnum(t[ij[2] + 1]))}}

\* f.text_content MATCH ? for a query of plain words: every word is a token of
\* the indexed text
FtsMatch(indexed, query) == Tokens(query) \subseteq Tokens(indexed)

\* json_extract(m.message, '$.text')
jsonText(rawMessage) ==
    IF rawMessage.kind = "object" /\ "text" \in DOMAIN rawMessage.fields
       /\ rawMessage.fields["text"].str
    THEN Val(rawMessage.fields["text"].s) ELSE Null

\* Variant: LIKE compares letter case
LikeMatchCaseSensitive(x, query) == x.Valid /\ Contains(x.v, query)

\* x LIKE '%' || query || '%' for a query without wildcard characters
LikeMatch(x, query) == x.Valid /\ Contains(ToLower(x.v), ToLower(query))

\* The WHERE terms both search queries share
searchFilter(tbl, m, opts, cutoff) ==
    /\ m.isDeleted = 0
    /\ m.type \notin {HIDDEN, REACTION}
    /\ (opts.ThreadID # "" => m.roomID = opts.ThreadID)
    /\ (opts.AccountID # "" =>
            \E id \in DOMAIN tbl : id = m.roomID /\ tbl[id].accountID.Valid
                                   /\ tbl[id].accountID.v = opts.AccountID)
    /\ (opts.Days > 0 => m.timestamp >= cutoff)

Rank(senv, id) == IF senv.rank = "byId" THEN 0 - id ELSE 0 - 1

TieBefore(senv, a, b) == IF senv.tie = "asc" THEN a < b ELSE a > b

IDSeq(msgs) == [i \in 1..Len(msgs) |-> i]

\* The rows of the MATCH query: ORDER BY rank ASC, m.timestamp DESC LIMIT ?
matchRows(tbl, msgs, index, opts, cutoff, senv) ==
    LET hit(id) == /\ id \in DOMAIN index.rows
                   /\ FtsMatch(index.rows[id], opts.Query)
                   /\ searchFilter(tbl, msgs[id], opts, cutoff)
        before(a, b) ==
            \/ Rank(senv, a) < Rank(senv, b)
            \/ Rank(senv, a) = Rank(senv, b) /\ msgs[a].timestamp > msgs[b].timestamp
            \/ Rank(senv, a) = Rank(senv, b) /\ msgs[a].timestamp = msgs[b].timestamp
               /\ TieBefore(senv, a, b)
    IN  Take(SortSeq(SelectSeq(IDSeq(msgs), hit), before), effectiveLimit(opts.Limit))

\* The rows of the LIKE query: rank is 0 for every row
likeRows(tbl, msgs, opts, cutoff, senv) ==
    LET hit(id) == /\ LikeMatch(jsonText(msgs[id].message), opts.Query)
                   /\ searchFilter(tbl, msgs[id], opts, cutoff)
        before(a, b) ==
            \/ msgs[a].timestamp > msgs[b].timestamp
            \/ msgs[a].timestamp = msgs[b].timestamp /\ TieBefore(senv, a, b)
    IN  Take(SortSeq(SelectSeq(IDSeq(msgs), hit), before), effectiveLimit(opts.Limit))

\* The Message built from one scanned row of mx_room_messages
scanMessage(msgs, id, format, score) ==
    LET m == msgs[id]
    IN  [ID |-> id, EventID |-> m.eventID, ThreadID |-> m.roomID, ThreadName |-> <<>>,
         AccountID |-> "", SenderID |-> m.senderContactID, SenderName |-> <<>>,
         Timestamp |-> unixMillis(m.timestamp), IsSentByMe |-> m.isSentByMe # 0,
         Type |-> TrimSpace(m.type),
         Text |-> ResolveMessageText(m.message, TrimSpace(m.type), StringOf(m.text_content), format),
         Score |-> score]

\* threadInfo[id] of threadInfoByID: the zero value for a room without a threads row
threadInfoOf(tbl, id) ==
    IF id \in DOMAIN tbl
    THEN [ID |-> id, AccountID |-> AtomOf(tbl[id].accountID),
          Title |-> TrimSpace(StringOf(tbl[id].title)), Name |-> TrimSpace(StringOf(tbl[id].name)),
          Type |-> TrimSpaceTag(AtomOf(tbl[id].type))]
    ELSE [ID |-> id, AccountID |-> "", Title |-> <<>>, Name |-> <<>>, Type |-> ""]

\* participantIndex[senderID].Name, or the name already set when the sender is no participant
senderName(ps, senderID, old) ==
    IF \E i \in DOMAIN ps : ps[i].ID = senderID
    THEN ps[SetMax({i \in DOMAIN ps : ps[i].ID = senderID})].Name
    ELSE old

\* Variant: the match stays in the trimmed context
trimContextKeepsMatch(msgs, matchID, context) ==
    IF context <= 0 \/ msgs = <<>> \/ ~\E i \in DOMAIN msgs : msgs[i].ID = matchID THEN msgs
    ELSE LET idx == CHOOSE i \in DOMAIN msgs :
                        msgs[i].ID = matchID /\ \A j \in 1..(i - 1) : msgs[j].ID # matchID
         IN  SubSeq(msgs, Max(idx - context, 1), Min(idx + context, Len(msgs)))

\* trimContext, with positions counted from 1
trimContext(msgs, matchID, context) ==
    IF context <= 0 \/ msgs = <<>> THEN msgs
    ELSE IF ~\E i \in DOMAIN msgs : msgs[i].ID = matchID THEN msgs
    ELSE LET idx == CHOOSE i \in DOMAIN msgs :
                        msgs[i].ID = matchID /\ \A j \in 1..(i - 1) : msgs[j].ID # matchID
             start == Max(idx - context, 1)
             end == Min(idx + context, Len(msgs))
         IN  SubSeq(msgs, start, idx - 1) \o SubSeq(msgs, idx + 1, end)


\* The rows of the context query of fetchContextMessages for a match, oldest
\* first.  The bounds are computed from match.Timestamp, which unixMillis made
\* the zero time for a stored timestamp of 0: the window then lies around year
\* 1 and holds no row.
contextRows(msgs, match, opts, senv) ==
    LET window == IF opts.Window = 0 THEN defaultContextWindow ELSE opts.Window
        inWindow(id) ==
            /\ msgs[id].roomID = match.ThreadID
            /\ ~match.Timestamp.isZero
            /\ msgs[id].timestamp >= match.Timestamp.ms - window
            /\ msgs[id].timestamp <= match.Timestamp.ms + window
            /\ msgs[id].isDeleted = 0
            /\ msgs[id].type \notin {HIDDEN, REACTION}
        before(a, b) ==
            \/ msgs[a].timestamp < msgs[b].timestamp
            \/ msgs[a].timestamp = msgs[b].timestamp /\ TieBefore(senv, a, b)
    IN  SortSeq(SelectSeq(IDSeq(msgs), inWindow), before)

\* fetchContextMessages after its query succeeded with rows: [msgs, cache, events]
fetchContextMessages(tbl, msgs, prows, b, files, c, match, rows, opts, benv) ==
    LET named(m, ps, info, d) ==
            [m EXCEPT !.AccountID = info.AccountID, !.ThreadName = d.name,
                      !.SenderName = senderName(ps, m.SenderID, m.SenderName)]
        trimmed(scanned) ==
            IF opts.Context > 0 THEN trimContext(scanned, match.ID, opts.Context) ELSE scanned
        fetch(ps, info, d) ==
            [msgs |-> trimmed([i \in DOMAIN rows |->
                                  named(scanMessage(msgs, rows[i], opts.Format, 0), ps, info, d)]),
             cache |-> d.cache, events |-> d.events]
        room(ps, info) == fetch(ps, info, displayName(b, files, c, info, ps, benv))
    IN  room(participantsOfRoom(prows, match.ThreadID), threadInfoOf(tbl, match.ThreadID))

\* The loop "for i := range matches": account, thread name and sender name
RECURSIVE nameMatches(_, _, _, _, _, _, _, _)
nameMatches(tbl, prows, b, files, c, ms, benv, events) ==
    LET prepend(m, more) == [more EXCEPT !.matches = <<m>> \o more.matches]
        name(m, ps, info, d) ==
            prepend([m EXCEPT !.AccountID = info.AccountID, !.ThreadName = d.name,
                              !.SenderName = senderName(ps, m.SenderID, m.SenderName)],
                    nameMatches(tbl, prows, b, files, d.cache, Tail(ms), benv,
                                events \o d.events))
        visit(m, ps, info) == name(m, ps, info, displayName(b, files, c, info, ps, benv))
    IN  IF ms = <<>> THEN [matches |-> <<>>, cache |-> c, events |-> events]
        ELSE visit(Head(ms), participantsOfRoom(prows, Head(ms).ThreadID),
                   threadInfoOf(tbl, Head(ms).ThreadID))

\* The loop "for _, match := range matches": one context query per match when
\* a context is asked for.  [results, err, cache, queries, events]
RECURSIVE contextResults(_, _, _, _, _, _, _, _, _, _, _, _)
contextResults(tbl, msgs, prows, b, files, c, ms, opts, qenv, benv, senv, acc) ==
    LET fetched(rows, f) ==
            contextResults(tbl, msgs, prows, b, files, f.cache, Tail(ms), opts, qenv, benv, senv,
                [acc EXCEPT !.results = Append(@, [Match |-> Head(ms), Context |-> f.msgs]),
                            !.queries = Append(@, Q("context", rows, qenv)),
                            !.events = @ \o f.events])
        queried(rows) ==
            fetched(rows, fetchContextMessages(tbl, msgs, prows, b, files, c, Head(ms), rows,
                                               opts, benv))
    IN  IF ms = <<>> THEN [acc EXCEPT !.cache = c]
        ELSE IF ~(opts.Context > 0 \/ opts.Window > 0)
        THEN contextResults(tbl, msgs, prows, b, files, c, Tail(ms), opts, qenv, benv, senv,
                [acc EXCEPT !.results = Append(@, [Match |-> Head(ms), Context |-> <<>>])])
        ELSE IF qenv["context"] # NoErr
        THEN [acc EXCEPT !.results = <<>>, !.err = qenv["context"], !.cache = c,
                         !.queries = Append(@, Q("context", <<>>, qenv))]
        ELSE queried(contextRows(msgs, Head(ms), opts, senv))

\* Store.SearchMessages: [ret, err, cache, queries, events]
SearchMessages(tbl, msgs, index, prows, b, files, c, opts, cutoff, qenv, benv, senv) ==
    LET fail(e, q) == [ret |-> <<>>, err |-> e, cache |-> c, queries |-> q, events |-> <<>>]
        qHas == <<Q("fts_check", <<>>, qenv)>>
        useFTS == index.exists
        matchErr == qenv["match"]
        fellBack == useFTS /\ matchErr # NoErr /\ isFTSError(matchErr)
        useLike == ~useFTS \/ fellBack
        result(done) == [ret |-> done.results, err |-> done.err, cache |-> done.cache,
                         queries |-> done.queries, events |-> done.events]
        \* the context loop, after the enrichment loop returned named
        enriched(named, q) ==
            result(contextResults(tbl, msgs, prows, b, files, named.cache, named.matches, opts,
                                  qenv, benv, senv,
                                  [results |-> <<>>, err |-> NoErr, cache |-> named.cache,
                                   queries |-> q, events |-> named.events]))
        \* from the main query on, with the rows it returns if it succeeds
        searched(rows, roomIDs) ==
            LET qMain == qHas
                         \o (IF useFTS THEN <<Q("match", rows, qenv)>> ELSE <<>>)
                         \o (IF useLike THEN <<Q("like", rows, qenv)>> ELSE <<>>)
                qInfo == IF roomIDs # <<>> THEN Append(qMain, Q("thread_info", <<>>, qenv))
                         ELSE qMain
                qPart == IF roomIDs # <<>> THEN Append(qInfo, Q("participants", <<>>, qenv))
                         ELSE qInfo
            IN  IF useFTS /\ matchErr # NoErr /\ ~fellBack THEN fail(matchErr, qMain)
                ELSE IF useLike /\ qenv["like"] # NoErr THEN fail(qenv["like"], qMain)
                ELSE IF roomIDs # <<>> /\ qenv["thread_info"] # NoErr
                THEN fail(qenv["thread_info"], qInfo)
                ELSE IF roomIDs # <<>> /\ qenv["participants"] # NoErr
                THEN fail(qenv["participants"], qPart)
                ELSE enriched(nameMatches(tbl, prows, b, files, c,
                                [i \in DOMAIN rows |->
                                    scanMessage(msgs, rows[i], opts.Format,
                                                IF useLike THEN 0 ELSE Rank(senv, rows[i]))],
                                benv, <<>>),
                              qPart)
        selected(rows) ==
            searched(rows, uniqueStrings([i \in DOMAIN rows |-> msgs[rows[i]].roomID]))
    IN  IF TrimSpace(opts.Query) = <<>> THEN fail("search query is required", <<>>)
        ELSE IF qenv["fts_check"] # NoErr THEN fail(qenv["fts_check"], qHas)
        ELSE selected(IF useLike THEN likeRows(tbl, msgs, opts, cutoff, senv)
                      ELSE matchRows(tbl, msgs, index, opts, cutoff, senv))

\* Store.HasFTS: [ret, err, queries]
HasFTS(index, qenv) ==
    IF qenv["fts_check"] # NoErr
    THEN [ret |-> FALSE, err |-> qenv["fts_check"], queries |-> <<Q("fts_check", <<>>, qenv)>>]
    ELSE [ret |-> index.exists, err |-> NoErr, queries |-> <<Q("fts_check", <<>>, qenv)>>]


\* Variant: a missing row yields the zero Thread without an error
GetThreadMissingIsEmpty(tbl, crumbs, msgs, prows, b, files, c, threadID, withStats, qenv, benv) ==
    LET fail(e, q) == [ret |-> <<>>, err |-> e, cache |-> c, queries |-> q, events |-> <<>>]
        found == threadID \in DOMAIN tbl
        q1 == <<Q("thread", IF found THEN <<threadID>> ELSE <<>>, qenv)>>
        askP == participantsQueried(<<threadID>>)
        q2 == IF askP THEN Append(q1, Q("participants", <<>>, qenv)) ELSE q1
        named(t, ps, d) ==
            [ret |-> [t EXCEPT !.Participants = ps, !.DisplayName = d.name],
             err |-> NoErr, cache |-> d.cache, queries |-> q2, events |-> d.events]
        scanned(t, ps) == named(t, ps, displayName(b, files, c, t, ps, benv))
    IN  IF qenv["thread"] # NoErr THEN fail(qenv["thread"], q1)
        ELSE IF ~found THEN fail(NoErr, q1)
        ELSE IF askP /\ qenv["participants"] # NoErr THEN fail(qenv["participants"], q2)
        ELSE scanned(scanThread(tbl, crumbs, msgs, threadID, withStats),
                     participantsByRoom(prows, <<threadID>>, threadID))

\* Store.GetThread: [ret, err, cache, queries, events]
GetThread(tbl, crumbs, msgs, prows, b, files, c, threadID, withStats, qenv, benv) ==
    LET fail(e, q) == [ret |-> <<>>, err |-> e, cache |-> c, queries |-> q, events |-> <<>>]
        found == threadID \in DOMAIN tbl
        q1 == <<Q("thread", IF found THEN <<threadID>> ELSE <<>>, qenv)>>
        askP == participantsQueried(<<threadID>>)
        q2 == IF askP THEN Append(q1, Q("participants", <<>>, qenv)) ELSE q1
        named(t, ps, d) ==
            [ret |-> [t EXCEPT !.Participants = ps, !.DisplayName = d.name],
             err |-> NoErr, cache |-> d.cache, queries |-> q2, events |-> d.events]
        scanned(t, ps) == named(t, ps, displayName(b, files, c, t, ps, benv))
    IN  IF qenv["thread"] # NoErr THEN fail(qenv["thread"], q1)
        ELSE IF ~found THEN fail("sql: no rows in result set", q1)
        ELSE IF askP /\ qenv["participants"] # NoErr THEN fail(qenv["participants"], q2)
        ELSE scanned(scanThread(tbl, crumbs, msgs, threadID, withStats),
                     participantsByRoom(prows, <<threadID>>, threadID))

\* The rows of the ListMessages query: ORDER BY timestamp DESC LIMIT ?.  After
\* and Before are NULL-able bounds, [Valid, v].
messageRows(msgs, opts, senv) ==
    LET hit(id) ==
            /\ msgs[id].roomID = opts.ThreadID
            /\ msgs[id].isDeleted = 0
            /\ msgs[id].type \notin {HIDDEN, REACTION}
            /\ (opts.After.Valid => msgs[id].timestamp >= opts.After.v)
            /\ (opts.Before.Valid => msgs[id].timestamp <= opts.Before.v)
        before(a, b) ==
            \/ msgs[a].timestamp > msgs[b].timestamp
            \/ msgs[a].timestamp = msgs[b].timestamp /\ TieBefore(senv, a, b)
    IN  Take(SortSeq(SelectSeq(IDSeq(msgs), hit), before), effectiveLimit(opts.Limit))

\* Variant: the conversation ID is validated after the messages query
ListMessagesValidatesLate(msgs, prows, opts, qenv, senv) ==
    LET named(m, ps) == [m EXCEPT !.SenderName = senderName(ps, m.SenderID, m.SenderName)]
        listed(rows, ps) ==
            IF qenv["messages"] # NoErr
            THEN [ret |-> <<>>, err |-> qenv["messages"],
                  queries |-> <<Q("messages", rows, qenv)>>]
            ELSE IF opts.ThreadID = ""
            THEN [ret |-> <<>>, err |-> "thread ID is required",
                  queries |-> <<Q("messages", rows, qenv)>>]
            ELSE IF qenv["participants"] # NoErr
            THEN [ret |-> <<>>, err |-> qenv["participants"],
                  queries |-> <<Q("messages", rows, qenv), Q("participants", <<>>, qenv)>>]
            ELSE [ret |-> [i \in DOMAIN rows |->
                              named(scanMessage(msgs, rows[i], opts.Format, 0), ps)],
                  err |-> NoErr,
                  queries |-> <<Q("messages", rows, qenv), Q("participants", <<>>, qenv)>>]
    IN  listed(messageRows(msgs, opts, senv),
               participantsByRoom(prows, <<opts.ThreadID>>, opts.ThreadID))

\* Store.ListMessages: [ret, err, queries]
ListMessages(msgs, prows, opts, qenv, senv) ==
    LET named(m, ps) == [m EXCEPT !.SenderName = senderName(ps, m.SenderID, m.SenderName)]
        listed(rows, ps) ==
            IF qenv["messages"] # NoErr
            THEN [ret |-> <<>>, err |-> qenv["messages"],
                  queries |-> <<Q("messages", rows, qenv)>>]
            ELSE IF qenv["participants"] # NoErr
            THEN [ret |-> <<>>, err |-> qenv["participants"],
                  queries |-> <<Q("messages", rows, qenv), Q("participants", <<>>, qenv)>>]
            ELSE [ret |-> [i \in DOMAIN rows |->
                              named(scanMessage(msgs, rows[i], opts.Format, 0), ps)],
                  err |-> NoErr,
                  queries |-> <<Q("messages", rows, qenv), Q("participants", <<>>, qenv)>>]
    IN  IF opts.ThreadID = "" THEN [ret |-> <<>>, err |-> "thread ID is required", queries |-> <<>>]
        ELSE listed(messageRows(msgs, opts, senv),
                    participantsByRoom(prows, <<opts.ThreadID>>, opts.ThreadID))

(***************************************************************************)
(* Bounded snapshots and inputs                                            *)
(***************************************************************************)
\* Millisecond timestamps of the model are archivedTsThreshold + 1 .. + MaxTs
MaxTs == 2

\* The row limits tried are 0 .. MaxLimit
MaxLimit == 1

\* time.Now() of the model, as an offset above archivedTsThreshold, and the
\* length of a day
NowOffset == 3
DayLength == 1

Ts(k) == archivedTsThreshold + k

Now == Ts(NowOffset)

NoBridge == [present |-> FALSE, platformDBs |-> <<>>]

NoBEnv == [fail |-> <<>>, order |-> <<>>]

AllOk == [k \in {"threads", "thread", "participants", "fts_check", "match", "like",
                 "thread_info", "messages", "context"} |-> NoErr]

BaseRow ==
    [accountID |-> Val("whatsapp"), timestamp |-> Ts(1),
     title |-> Val(<<"T">>), name |-> Null, type |-> Val("group"),
     isUnread |-> Val(0), isMarkedUnread |-> Val(0), isLowPriority |-> Val(0),
     unreadCount |-> Null, unreadMentionsCount |-> Null,
     isArchivedUpto |-> Null, isArchivedUpToOrder |-> Null, tags |-> [kind |-> "null"]]

BaseMessage ==
    [roomID |-> "r1", eventID |-> "e", senderContactID |-> <<"@", "a">>, timestamp |-> Ts(1),
     isDeleted |-> 0, type |-> TEXT, hsOrder |-> 1, isSentByMe |-> 0,
     message |-> [kind |-> "empty"], text_content |-> Null]

\* Snapshots for the label rules: r1 ranges over rows that differ in what the
\* label rules read, r2 over two fixed rows; r1 holds a message of order 3, r2
\* a later one of order 7.
InitLabels ==
    LET TagRaws == {[kind |-> "null"], [kind |-> "array", items |-> <<"work", "FAVOURITE">>],
                    [kind |-> "other", fav |-> TRUE]}
        ArchivedMarkers == {Null, Val(<<"2">>), Val(<<"T", "S">> \o Itoa(Ts(MaxTs))),
                            Val(<<"y", "e", "s">>)}
        OrderMarkers == {Null, Val(<<"3", ".", "5">>)}
        UnreadFlags == {<<Val(0), Val(0)>>, <<Val(1), Null>>, <<Null, Val(1)>>}
        LabelRows ==
            {[BaseRow EXCEPT !.tags = tg, !.isArchivedUpto = au, !.isArchivedUpToOrder = ao,
                             !.isLowPriority = lp, !.isUnread = u[1], !.isMarkedUnread = u[2]] :
                tg \in TagRaws, au \in ArchivedMarkers, ao \in OrderMarkers,
                lp \in {Val(0), Val(1)}, u \in UnreadFlags}
        OtherRows ==
            {[BaseRow EXCEPT !.accountID = Val("telegram"), !.timestamp = Ts(2),
                             !.tags = [kind |-> "array", items |-> <<"Favourite">>],
                             !.isArchivedUpto = Val(<<"9">>), !.isLowPriority = Val(1)],
             [BaseRow EXCEPT !.timestamp = 0, !.isArchivedUpto = Val(<<"9">>), !.isUnread = Val(1)]}
    IN  /\ \E a \in LabelRows, b \in OtherRows :
                threads = [id \in {"r1", "r2"} |-> IF id = "r1" THEN a ELSE b]
        /\ breadcrumbs = <<>>
        /\ participants = <<>>
        /\ messages = <<[BaseMessage EXCEPT !.timestamp = Ts(2), !.hsOrder = 3],
                        [BaseMessage EXCEPT !.roomID = "r2", !.timestamp = Ts(3), !.hsOrder = 7]>>

\* Snapshots for the ordering: rows that differ in the three timestamps, with
\* at most one message per room
InitOrder ==
    LET OrderRows == {[BaseRow EXCEPT !.timestamp = t] : t \in {0} \cup {Ts(k) : k \in 1..MaxTs}}
        OrderRows2 == {[BaseRow EXCEPT !.timestamp = t] : t \in {0, Ts(MaxTs)}}
        Crumbs == {Null, Val(0)} \cup {Val(Ts(k)) : k \in 1..MaxTs}
        one(r) == {<<>>} \cup {<<[BaseMessage EXCEPT !.roomID = r, !.timestamp = Ts(k)]>> : k \in 1..MaxTs}
    IN  /\ \E a \in OrderRows, b \in OrderRows2 :
                threads = [id \in {"r1", "r2"} |-> IF id = "r1" THEN a ELSE b]
        /\ breadcrumbs \in [{"r1"} -> Crumbs]
        /\ participants = <<>>
        /\ messages \in {a \o b : a \in one("r1"), b \in one("r2")}

InitNoIndex == fts = [exists |-> FALSE, rows |-> <<>>]

InitNoBridge == bridgeFiles = <<>> /\ bridge = NoBridge

InitRest ==
    /\ cache = <<>>
    /\ op = "" /\ args = <<>> /\ ret = <<>> /\ err = NoErr /\ queries = <<>> /\ opened = <<>>
    /\ pc = <<>> /\ cursors = <<>>

InitThreads == (InitLabels \/ InitOrder) /\ InitNoIndex /\ InitNoBridge /\ InitRest

\* The options tried: every label under every storage filter and limit, and the
\* default and unknown labels and the output switches under the default filters
ThreadListInputs ==
    [Days : {0, 1}, Limit : 0..MaxLimit, AccountID : {"", "whatsapp"},
     Label : {LabelAll, LabelInbox, LabelArchive, LabelFavourite, LabelUnread},
     IncludeLowPriority : BOOLEAN, WithParticipants : {FALSE}, WithStats : {FALSE}]
    \cup
    [Days : {0}, Limit : {0}, AccountID : {""}, Label : {"", "spam"},
     IncludeLowPriority : BOOLEAN, WithParticipants : BOOLEAN, WithStats : BOOLEAN]

\* The failures of the primary handle tried: none, or one kind of query failing
QueryEnvs(kinds) == {AllOk} \cup {[AllOk EXCEPT ![k] = "disk I/O error"] : k \in kinds}

\* Failures are tried under the default storage filters only
ThreadListEnvs(opts) ==
    IF opts.Days = 0 /\ opts.Limit = 0 /\ opts.AccountID = ""
    THEN QueryEnvs({"threads", "participants"}) ELSE {AllOk}

\* The behaviours of the secondary stores tried
BridgeEnvs(b) ==
    IF ~b.present THEN {NoBEnv}
    ELSE [fail : [Range(b.platformDBs) -> {"ok", "open", "portal", "ghost"}],
          order : Perms(DOMAIN b.platformDBs)]

\* The largest context count tried
MaxContext == 2

Obj(text) == [kind |-> "object", fields |-> [k \in {"text"} |-> [str |-> TRUE, s |-> text]]]

TwoThreads ==
    [id \in {"r1", "r2"} |->
        IF id = "r1" THEN BaseRow
        ELSE [BaseRow EXCEPT !.accountID = Val("telegram"), !.timestamp = Ts(2)]]

OneParticipant ==
    <<[room_id |-> "r1", id |-> <<"@", "a">>, full_name |-> Val(<<"A", "l">>),
       nickname |-> Null, is_self |-> Val(0)]>>

\* the index as the triggers leave it: one row per message that has a text_content
Populated(msgs) ==
    [exists |-> TRUE,
     rows |-> [id \in {i \in DOMAIN msgs : msgs[i].text_content.Valid} |-> msgs[id].text_content.v]]

\* Snapshots for the two search queries: two messages whose indexed text and
\* $.text vary, with the index absent, populated or holding the second row only
InitSearchText ==
    LET Texts == {<<"a">>, <<"a", "b">>, <<"a", " ", "b">>, <<"b">>, <<"A">>}
        NoText == [kind |-> "object", fields |-> [k \in {"body"} |-> [str |-> TRUE, s |-> <<"b">>]]]
    IN
    /\ threads = TwoThreads
    /\ breadcrumbs = <<>>
    /\ participants = OneParticipant
    /\ \E t1 \in Texts, j1 \in {"same", "none", "other"}, t2 \in {<<"a">>, <<"b">>},
          r2 \in {"r1", "r2"} :
        messages = <<[BaseMessage EXCEPT !.timestamp = Ts(2), !.text_content = Val(t1),
                          !.message = CASE j1 = "same" -> Obj(t1)
                                        [] j1 = "none" -> NoText
                                        [] OTHER -> Obj(<<"a">>)],
                     [BaseMessage EXCEPT !.roomID = r2, !.timestamp = Ts(1),
                          !.text_content = Val(t2), !.message = Obj(t2)]>>
    /\ \E i \in {"absent", "populated", "partial"} :
        fts = CASE i = "absent" -> [exists |-> FALSE, rows |-> <<>>]
                [] i = "populated" -> Populated(messages)
                [] OTHER -> [exists |-> TRUE, rows |-> [id \in {2} |-> messages[2].text_content.v]]

\* Snapshots for the context windows: the only message matching "a" (stored
\* at time 0 or in the middle), two fixed neighbours and two that vary in
\* time and in what may keep them out of a window
InitSearchContext ==
    LET Neighbours ==
            {[BaseMessage EXCEPT !.timestamp = Ts(k), !.roomID = v[1], !.isDeleted = v[2],
                                 !.type = v[3], !.text_content = Val(<<"b">>),
                                 !.message = Obj(<<"b">>)] :
                k \in 1..3,
                v \in {<<"r1", 0, TEXT>>, <<"r1", 1, TEXT>>, <<"r1", 0, HIDDEN>>,
                       <<"r1", 0, REACTION>>, <<"r2", 0, FILE>>}}
    IN
    /\ threads = TwoThreads
    /\ breadcrumbs = <<>>
    /\ participants = OneParticipant
    /\ \E t \in {0, Ts(2)}, n1 \in Neighbours, n2 \in {n \in Neighbours : n.timestamp = Ts(3)} :
        messages = <<n1,
                     [BaseMessage EXCEPT !.timestamp = t, !.text_content = Val(<<"a">>),
                                         !.message = Obj(<<"a">>)],
                     n2,
                     [BaseMessage EXCEPT !.timestamp = Ts(1), !.text_content = Val(<<"b">>),
                                         !.message = Obj(<<"b">>)],
                     [BaseMessage EXCEPT !.timestamp = Ts(3), !.text_content = Val(<<"b">>),
                                         !.message = Obj(<<"b">>)]>>
    /\ fts \in {[exists |-> FALSE, rows |-> <<>>], Populated(messages)}

InitSearch == (InitSearchText \/ InitSearchContext) /\ InitNoBridge /\ InitRest

DefaultSearch ==
    [Query |-> <<"a">>, ThreadID |-> "", Days |-> 0, Limit |-> 0, AccountID |-> "",
     Context |-> 0, Window |-> 0, Format |-> FormatPlain]

\* The searches tried: every query under every thread, age and row limit, the
\* query "a" within one account, and under every context count and window
SearchInputs ==
    {[DefaultSearch EXCEPT !.Query = q, !.ThreadID = t, !.Days = d, !.Limit = l] :
        q \in {<<"a">>, <<"a", "b">>, <<"b", " ", "a">>, <<" ">>}, t \in {"", "r1"}, d \in {0, 1},
        l \in 0..MaxLimit}
    \cup
    {[DefaultSearch EXCEPT !.AccountID = "telegram"],
     [DefaultSearch EXCEPT !.Context = 1, !.Format = FormatRich],
     [DefaultSearch EXCEPT !.Query = <<>>]}
    \cup
    {[DefaultSearch EXCEPT !.Context = n, !.Window = w] : n \in 0..MaxContext, w \in (0 - 1)..2}

\* The failures tried during a search: under the default search every error of
\* the MATCH query, alone and followed by a failing LIKE query, and a failure
\* of each other kind of query; under a context search a failing context query
SearchEnvs(opts) ==
    IF opts = DefaultSearch
    THEN {AllOk}
         \cup {[AllOk EXCEPT !["match"] = e] : e \in QueryErrors}
         \cup {[AllOk EXCEPT !["match"] = e, !["like"] = "disk I/O error"] :
                e \in {"no such module: fts5", "disk I/O error"}}
         \cup {[AllOk EXCEPT ![k] = "disk I/O error"] :
                k \in {"fts_check", "like", "thread_info", "participants"}}
    ELSE IF opts.Context > 0 /\ opts.Window = 0 /\ opts.Format = FormatPlain
    THEN {AllOk, [AllOk EXCEPT !["context"] = "disk I/O error"]}
    ELSE {AllOk}

StorageEnvs == {[tie |-> "asc", rank |-> "flat"], [tie |-> "desc", rank |-> "flat"],
                [tie |-> "asc", rank |-> "byId"]}


\* Contents of a secondary store: the portal table (room -> other_user_id) and
\* the ghost table (id -> name)
Store(portal, ghost) == [portal |-> portal, ghost |-> ghost]

BothStores == [k \in {"whatsapp", "telegram"} |-> IF k = "whatsapp" THEN "p1" ELSE "p2"]

\* NewBridgeLookup found no local-* directory, one or two
InitBridgeStores ==
    LET StoreVariants ==
            {Store(<<>>, <<>>),
             Store([r \in {"r1"} |-> Val("u1")], [u \in {"u1"} |-> <<"B">>]),
             Store([r \in {"r1"} |-> Val("u1")], [u \in {"u1"} |-> <<" ">>]),
             Store([r \in {"r1"} |-> Val("u1")], <<>>),
             Store([r \in {"r1", "r2"} |-> IF r = "r1" THEN Null ELSE Val("u1")],
                   [u \in {"u1"} |-> <<" ", "C", " ">>]),
             Store([r \in {"r1", "r2"} |-> Val("u1")], [u \in {"u1"} |-> <<>>])}
    IN
    \/ bridge = [present |-> TRUE, platformDBs |-> <<>>] /\ bridgeFiles = <<>>
    \/ /\ bridge = [present |-> TRUE, platformDBs |-> [k \in {"whatsapp"} |-> "p1"]]
       /\ \E s1 \in StoreVariants : bridgeFiles = [f \in {"p1"} |-> s1]
    \/ /\ bridge = [present |-> TRUE, platformDBs |-> BothStores]
       /\ \E s1, s2 \in StoreVariants : bridgeFiles = [f \in {"p1", "p2"} |-> IF f = "p1" THEN s1 ELSE s2]

InitBridge ==
    /\ threads = TwoThreads
    /\ breadcrumbs = <<>>
    /\ participants = OneParticipant
    /\ messages = <<>>
    /\ InitNoIndex
    /\ (InitNoBridge \/ InitBridgeStores)
    /\ InitRest

\* The behaviours of the secondary stores tried during a composite operation
NameEnvs(b) ==
    IF ~b.present THEN {NoBEnv}
    ELSE [fail : [Range(b.platformDBs) -> {"ok", "portal"}], order : Perms(DOMAIN b.platformDBs)]

\* Snapshots for the whole interface: a direct conversation without title, a
\* titled group, three messages, the index absent or populated, and no
\* resolver or one with two stores that know the direct conversation or not
InitAll ==
    /\ threads = [id \in {"r1", "r2"} |->
                    IF id = "r1" THEN [BaseRow EXCEPT !.title = Null, !.type = Val("single")]
                    ELSE [BaseRow EXCEPT !.accountID = Val("telegram"), !.timestamp = Ts(2)]]
    /\ breadcrumbs = <<>>
    /\ participants = OneParticipant
    /\ messages = <<[BaseMessage EXCEPT !.text_content = Val(<<"a">>), !.message = Obj(<<"a">>)],
                    [BaseMessage EXCEPT !.timestamp = Ts(2), !.text_content = Val(<<"b">>),
                                        !.message = Obj(<<"b">>)],
                    [BaseMessage EXCEPT !.roomID = "r2", !.timestamp = Ts(2),
                                        !.text_content = Val(<<"a">>), !.message = Obj(<<"a">>)]>>
    /\ fts \in {[exists |-> FALSE, rows |-> <<>>], Populated(messages)}
    /\ \/ InitNoBridge
       \/ /\ bridge = [present |-> TRUE, platformDBs |-> BothStores]
          /\ \E s1, s2 \in {Store(<<>>, <<>>),
                           Store([r \in {"r1"} |-> Val("u1")], [u \in {"u1"} |-> <<"B">>])} :
                bridgeFiles = [f \in {"p1", "p2"} |-> IF f = "p1" THEN s1 ELSE s2]
    /\ InitRest

\* Snapshots for display names: r1 ranges over titles, names and types, its
\* participants over none, the user alone, one other person, the user and one other person,
\* and four other persons; r2 is a titled group.  One message of r1 reads "a".
\* There is no resolver, or one whose only store knows r1 or is empty.
InitNames ==
    LET Person(id, name, self) ==
            [room_id |-> "r1", id |-> <<"@", id>>, full_name |-> Val(<<name>>),
             nickname |-> Null, is_self |-> Val(self)]
    IN
    /\ \E title \in {Null, Val(<<" ">>), Val(<<"T">>)}, name \in {Null, Val(<<"N">>)},
          type \in {Val("single"), Val(" dm "), Val("group")} :
            threads = [id \in {"r1", "r2"} |->
                        IF id = "r1"
                        THEN [BaseRow EXCEPT !.title = title, !.name = name, !.type = type]
                        ELSE [BaseRow EXCEPT !.accountID = Val("telegram"), !.timestamp = Ts(2)]]
    /\ breadcrumbs = <<>>
    /\ participants \in {<<>>,
                         <<Person("m", "M", 1)>>,
                         <<Person("a", "A", 0)>>,
                         <<Person("m", "M", 1), Person("a", "A", 0)>>,
                         <<Person("a", "A", 0), Person("b", "B", 0), Person("c", "C", 0),
                           Person("d", "D", 0)>>}
    /\ messages = <<[BaseMessage EXCEPT !.text_content = Val(<<"a">>), !.message = Obj(<<"a">>)]>>
    /\ InitNoIndex
    /\ \/ InitNoBridge
       \/ /\ bridge = [present |-> TRUE, platformDBs |-> [k \in {"whatsapp"} |-> "p1"]]
          /\ \E s1 \in {Store(<<>>, <<>>),
                       Store([r \in {"r1"} |-> Val("u1")], [u \in {"u1"} |-> <<"R">>])} :
                bridgeFiles = [f \in {"p1"} |-> s1]
    /\ InitRest

MessageListInputs ==
    [ThreadID : {"", "r1", "r9"}, Limit : 0..MaxLimit, After : {Null, Val(Ts(2))},
     Before : {Null, Val(Ts(1))}, Format : {FormatPlain}]

\* The longest window handed to trimContext
MaxWindowLen == 4

(***************************************************************************)
(* Actions                                                                 *)
(***************************************************************************)
\* Variant: a writable handle on which the index check creates the index table
PrimaryWritable ==
    /\ fts' = [fts EXCEPT !.exists = TRUE]
    /\ UNCHANGED <<threads, breadcrumbs, participants, messages>>

\* The primary handle is opened with mode=ro and only SELECTs are issued
PrimaryReadOnly == UNCHANGED storeVars

\* Each secondary handle is opened with mode=ro
BridgeReadOnly == UNCHANGED <<bridgeFiles, bridge>>

\* The synchronous, single-threaded caller: it starts an operation only when no
\* result is pending, and takes the pending result before it calls again.
Idle == op = ""

Return ==
    /\ ~Idle
    /\ op' = "" /\ args' = <<>> /\ ret' = <<>> /\ err' = NoErr /\ queries' = <<>> /\ opened' = <<>>
    /\ UNCHANGED <<storeVars, bridgeFiles, bridge, cache, pc, cursors>>

ListThreadsAct ==
    /\ Idle
    /\ \E opts \in ThreadListInputs, benv \in NameEnvs(bridge) :
      \E qenv \in ThreadListEnvs(opts) :
      \E sorted \in threadRowOrders(threads, breadcrumbs, messages, opts, Now - opts.Days * DayLength) :
        \E r \in {ListThreads(threads, breadcrumbs, messages, participants, bridge, bridgeFiles,
                             cache, opts, sorted, qenv, benv)} :
            /\ op' = "ListThreads"
            /\ args' = opts
            /\ ret' = r.ret
            /\ err' = r.err
            /\ cache' = r.cache
            /\ queries' = r.queries
            /\ opened' = r.events
            /\ PrimaryReadOnly
            /\ BridgeReadOnly
            /\ UNCHANGED <<pc, cursors>>

SearchMessagesAct ==
    /\ Idle
    /\ \E opts \in SearchInputs, benv \in NameEnvs(bridge), senv \in StorageEnvs :
      \E qenv \in SearchEnvs(opts) :
        \E r \in {SearchMessages(threads, messages, fts, participants, bridge, bridgeFiles, cache,
                                opts, Now - opts.Days * DayLength, qenv, benv, senv)} :
            /\ op' = "SearchMessages"
            /\ args' = opts
            /\ ret' = r.ret
            /\ err' = r.err
            /\ cache' = r.cache
            /\ queries' = r.queries
            /\ opened' = r.events
            /\ PrimaryReadOnly
            /\ BridgeReadOnly
            /\ UNCHANGED <<pc, cursors>>

HasFTSAct ==
    /\ Idle
    /\ \E qenv \in QueryEnvs({"fts_check"}) :
        \E r \in {HasFTS(fts, qenv)} :
            /\ op' = "HasFTS"
            /\ args' = <<>>
            /\ ret' = r.ret
            /\ err' = r.err
            /\ queries' = r.queries
            /\ opened' = <<>>
            /\ UNCHANGED cache
            /\ PrimaryReadOnly
            /\ BridgeReadOnly
            /\ UNCHANGED <<pc, cursors>>

GetThreadAct ==
    /\ Idle
    /\ \E in \in {"r1", "r2", "r9"} \X BOOLEAN, benv \in NameEnvs(bridge) :
      \E qenv \in QueryEnvs({"thread", "participants"}) :
        \E r \in {GetThread(threads, breadcrumbs, messages, participants, bridge, bridgeFiles,
                           cache, in[1], in[2], qenv, benv)} :
            /\ op' = "GetThread"
            /\ args' = [threadID |-> in[1], withStats |-> in[2]]
            /\ ret' = r.ret
            /\ err' = r.err
            /\ cache' = r.cache
            /\ queries' = r.queries
            /\ opened' = r.events
            /\ PrimaryReadOnly
            /\ BridgeReadOnly
            /\ UNCHANGED <<pc, cursors>>

ListMessagesAct ==
    /\ Idle
    /\ \E opts \in MessageListInputs, senv \in StorageEnvs :
      \E qenv \in QueryEnvs({"messages", "participants"}) :
        \E r \in {ListMessages(messages, participants, opts, qenv, senv)} :
            /\ op' = "ListMessages"
            /\ args' = opts
            /\ ret' = r.ret
            /\ err' = r.err
            /\ queries' = r.queries
            /\ opened' = <<>>
            /\ UNCHANGED cache
            /\ PrimaryReadOnly
            /\ BridgeReadOnly
            /\ UNCHANGED <<pc, cursors>>

LookupDMNameAct ==
    /\ Idle
    /\ \E in \in {"r1", "r2"} \X {"", "whatsapp", "WhatsApp", "local-telegram", "signal"},
         benv \in BridgeEnvs(bridge) :
        \E r \in {LookupDMName(bridge, bridgeFiles, cache, in[1], in[2], benv)} :
            /\ op' = "LookupDMName"
            /\ args' = [roomID |-> in[1], accountID |-> in[2]]
            /\ ret' = [name |-> r.name, ok |-> r.ok]
            /\ err' = r.err
            /\ cache' = r.cache
            /\ queries' = <<>>
            /\ opened' = r.events
            /\ PrimaryReadOnly
            /\ BridgeReadOnly
            /\ UNCHANGED <<pc, cursors>>

\* trimContext on its own, on windows of rows with distinct ids in any order,
\* of which only the id matters
TrimContextAct ==
    /\ Idle
    /\ \E w \in UNION {{w \in [1..n -> 1..MaxWindowLen] : \A i, j \in 1..n : i # j => w[i] # w[j]} :
                        n \in 0..MaxWindowLen},
          matchID \in 1..(MaxWindowLen + 1), context \in 0..MaxContext :
        LET msgs == [i \in DOMAIN w |-> [ID |-> w[i]]]
        IN  /\ op' = "trimContext"
            /\ args' = [messages |-> msgs, matchID |-> matchID, context |-> context]
            /\ ret' = trimContext(msgs, matchID, context)
            /\ err' = NoErr
            /\ queries' = <<>>
            /\ opened' = <<>>
            /\ UNCHANGED cache
            /\ PrimaryReadOnly
            /\ BridgeReadOnly
            /\ UNCHANGED <<pc, cursors>>

\* ResolveMessageText on its own.  The payloads tried: none, text that is not
\* JSON, a JSON string, a JSON number, and the JSON objects whose keys body,
\* text, url, filename and name are absent or hold one of the values listed
\* (white space and a non-string among them).
ResolveMessageTextAct ==
    /\ Idle
    /\ LET S(text) == [str |-> TRUE, s |-> text]
           NoString == [str |-> FALSE]
           Absent == [absent |-> TRUE]
           Choices == [body : {Absent, S(<<"b">>), NoString},
                       text : {Absent, S(<<"t">>), S(<<" ">>)},
                       url : {Absent, S(<<"u">>)},
                       filename : {Absent, S(<<" ", "f">>), S(<<" ">>)},
                       name : {Absent, S(<<"n">>)}]
           Keys == {"body", "text", "url", "filename", "name"}
           Object(ch) == [kind |-> "object",
                          fields |-> [k \in {k \in Keys : ch[k] # Absent} |-> ch[k]]]
           Payloads == {[kind |-> "empty"], [kind |-> "invalid", raw |-> <<"x">>],
                        [kind |-> "string", s |-> <<"s">>], [kind |-> "other", raw |-> <<"1">>]}
                       \cup {Object(ch) : ch \in Choices}
           Types == {TEXT, <<>>, FILE, <<"f", "i", "l", "e">>, <<"I", "M", "A", "G", "E">>,
                     <<"A", "U", "D", "I", "O">>, <<"P", "O", "L", "L">>}
       IN  \E rawMessage \in Payloads, msgType \in Types,
              textContent \in {<<>>, <<" ">>, <<"a">>}, format \in {FormatPlain, FormatRich} :
            /\ op' = "ResolveMessageText"
            /\ args' = [rawMessage |-> rawMessage, msgType |-> msgType,
                        textContent |-> textContent, format |-> format]
            /\ ret' = ResolveMessageText(rawMessage, msgType, textContent, format)
            /\ err' = NoErr
            /\ queries' = <<>>
            /\ opened' = <<>>
            /\ UNCHANGED cache
            /\ PrimaryReadOnly
            /\ BridgeReadOnly
            /\ UNCHANGED <<pc, cursors>>

\* computeArchived on its own.  The markers tried: NULL, white space, a word,
\* whole numbers below, at and above the threshold, a fraction, and numbers
\* behind the prefix ts (in both letter cases) and behind another letter.
ComputeArchivedAct ==
    /\ Idle
    /\ LET Markers == {Null, Val(<<" ">>), Val(<<"y", "e", "s">>), Val(<<"3">>),
                       Val(<<"3", ".", "5">>), Val(<<" ", "t", "s", "5">>), Val(<<"x", "5">>),
                       Val(Itoa(archivedTsThreshold)), Val(<<"T", "S">> \o Itoa(Ts(1)))}
       IN  \E archivedUpto \in Markers, archivedUpToOrder \in Markers,
              latest \in {Null, Val(3), Val(4), Val(6), Val(Ts(1))},
              lastMessage \in {Null} \cup {Val(Ts(k)) : k \in 0..MaxTs} :
            /\ op' = "computeArchived"
            /\ args' = [archivedUpto |-> archivedUpto, archivedUpToOrder |-> archivedUpToOrder,
                        latestHsOrder |-> latest, lastMessage |-> lastMessage]
            /\ ret' = computeArchived(archivedUpto, archivedUpToOrder, latest, lastMessage)
            /\ err' = NoErr
            /\ queries' = <<>>
            /\ opened' = <<>>
            /\ UNCHANGED cache
            /\ PrimaryReadOnly
            /\ BridgeReadOnly
            /\ UNCHANGED <<pc, cursors>>

NextBridge == LookupDMNameAct \/ Return

SpecBridge == InitBridge /\ [][NextBridge]_vars

InitTrim ==
    /\ threads = <<>> /\ breadcrumbs = <<>> /\ participants = <<>> /\ messages = <<>>
    /\ InitNoIndex /\ InitNoBridge /\ InitRest

NextTrim == TrimContextAct \/ Return

SpecTrim == InitTrim /\ [][NextTrim]_vars

NextRender == ResolveMessageTextAct \/ Return

SpecRender == InitTrim /\ [][NextRender]_vars

NextArchived == ComputeArchivedAct \/ Return

SpecArchived == InitTrim /\ [][NextArchived]_vars

Next ==
    \/ ListThreadsAct
    \/ GetThreadAct
    \/ ListMessagesAct
    \/ SearchMessagesAct
    \/ HasFTSAct
    \/ LookupDMNameAct
    \/ Return

Spec == InitAll /\ [][Next]_vars

NextSearch == SearchMessagesAct \/ HasFTSAct \/ Return

SpecSearch == InitSearch /\ [][NextSearch]_vars

NextThreads == ListThreadsAct \/ Return

SpecThreads == InitThreads /\ [][NextThreads]_vars

NextNames == ListThreadsAct \/ GetThreadAct \/ SearchMessagesAct \/ Return

SpecNames == InitNames /\ [][NextNames]_vars

(***************************************************************************)
(* The primary handle followed query by query.  The handle has one         *)
(* connection (SetMaxOpenConns(1)); an open result cursor occupies it, and *)
(* a query issued while it is occupied waits until it is released.         *)
(***************************************************************************)
\* Variant: the rows of the listing and of the search are still being scanned
\* when the participants or the thread details are looked up (the lookups
\* made inside the scanning loop)
rowsStillOpenDuringLookups(kind) ==
    \/ kind \in {"fts_check", "thread"}
    \/ kind \in {"participants", "thread_info", "messages", "context"}

\* Whether the rows of a query are read to the end, which releases the cursor,
\* before the operation goes on: the single row of QueryRowContext is closed by
\* its Scan, and every rows.Next() loop runs until Next reports no more rows;
\* no query is issued inside a loop
rowsExhausted(kind) ==
    \/ kind \in {"fts_check", "thread"}
    \/ kind \in {"threads", "participants", "match", "like", "thread_info", "messages", "context"}

\* A public operation is called: its inputs and the behaviour of the stores
\* determine the queries it will issue, in order, and its outcome
Begin ==
    /\ Idle
    /\ pc = <<>>
    /\ LET Start(name, a, r, c, ev) ==
              /\ pc' = [op |-> name, args |-> a, plan |-> r.queries, ret |-> r.ret,
                        err |-> r.err, cache |-> c, events |-> ev]
              /\ cursors' = <<>>
              /\ UNCHANGED <<op, args, ret, err, queries, opened, cache>>
              /\ PrimaryReadOnly
              /\ BridgeReadOnly
       IN \/ \E opts \in {o \in ThreadListInputs : o.Days = 0 /\ o.Limit = 0 /\ o.AccountID = ""
                                                    /\ o.Label \in {LabelAll, LabelInbox}},
                benv \in NameEnvs(bridge) :
              \E qenv \in ThreadListEnvs(opts) :
              \E sorted \in threadRowOrders(threads, breadcrumbs, messages, opts, Now) :
                \E r \in {ListThreads(threads, breadcrumbs, messages, participants, bridge,
                                     bridgeFiles, cache, opts, sorted, qenv, benv)} :
                    Start("ListThreads", opts, r, r.cache, r.events)
          \/ \E threadID \in {"r1", "r9"}, benv \in NameEnvs(bridge) :
              \E qenv \in QueryEnvs({"thread", "participants"}) :
                \E r \in {GetThread(threads, breadcrumbs, messages, participants, bridge,
                                   bridgeFiles, cache, threadID, FALSE, qenv, benv)} :
                    Start("GetThread", [threadID |-> threadID, withStats |-> FALSE], r,
                          r.cache, r.events)
          \/ \E opts \in {o \in MessageListInputs : o.Limit = 0 /\ o.After = Null /\ o.Before = Null},
                senv \in {s \in StorageEnvs : s.tie = "asc"} :
              \E qenv \in QueryEnvs({"messages", "participants"}) :
                \E r \in {ListMessages(messages, participants, opts, qenv, senv)} :
                    Start("ListMessages", opts, r, cache, <<>>)
          \/ \E opts \in {DefaultSearch, [DefaultSearch EXCEPT !.Context = 1]},
                benv \in NameEnvs(bridge), senv \in {s \in StorageEnvs : s.tie = "asc"} :
              \E qenv \in SearchEnvs(opts) :
                \E r \in {SearchMessages(threads, messages, fts, participants, bridge, bridgeFiles,
                                        cache, opts, Now, qenv, benv, senv)} :
                    Start("SearchMessages", opts, r, r.cache, r.events)

\* QueryContext / QueryRowContext on the primary handle: it obtains the one
\* connection, so it goes ahead only when no cursor occupies it; a query that
\* succeeds leaves its cursor open on the connection, one that fails leaves none
IssueQuery ==
    /\ pc # <<>>
    /\ pc.plan # <<>>
    /\ cursors = <<>>
    /\ queries' = Append(queries, Head(pc.plan))
    /\ pc' = [pc EXCEPT !.plan = Tail(pc.plan)]
    /\ cursors' = IF Head(pc.plan).err = NoErr
                  THEN <<[kind |-> Head(pc.plan).kind, read |-> FALSE]>> ELSE <<>>
    /\ UNCHANGED <<op, args, ret, err, opened, cache>>
    /\ PrimaryReadOnly
    /\ BridgeReadOnly

\* The operation scans the rows of the query it issued last; reading them to
\* the end releases the cursor
ReadRows ==
    /\ pc # <<>>
    /\ cursors # <<>>
    /\ ~cursors[Len(cursors)].read
    /\ cursors' = IF rowsExhausted(cursors[Len(cursors)].kind)
                  THEN SubSeq(cursors, 1, Len(cursors) - 1)
                  ELSE [cursors EXCEPT ![Len(cursors)].read = TRUE]
    /\ UNCHANGED <<op, args, ret, err, queries, opened, cache, pc>>
    /\ PrimaryReadOnly
    /\ BridgeReadOnly

\* The operation returns once it has no query left to issue and has scanned
\* the rows of the last one: the deferred rows.Close() calls release whatever
\* cursor is still open, and the caller holds the result or the error
Finish ==
    /\ pc # <<>>
    /\ pc.plan = <<>>
    /\ IF cursors = <<>> THEN TRUE ELSE cursors[Len(cursors)].read
    /\ op' = pc.op
    /\ args' = pc.args
    /\ ret' = pc.ret
    /\ err' = pc.err
    /\ cache' = pc.cache
    /\ opened' = pc.events
    /\ cursors' = <<>>
    /\ pc' = <<>>
    /\ UNCHANGED queries
    /\ PrimaryReadOnly
    /\ BridgeReadOnly

NextConn == Begin \/ IssueQuery \/ ReadRows \/ Finish \/ Return

\* The operation runs on the caller's goroutine without interruption: a step
\* it can take, it takes
SpecConn == InitAll /\ [][NextConn]_vars /\ WF_vars(IssueQuery \/ ReadRows \/ Finish)

(***************************************************************************)
(* Properties of ListThreads                                               *)
(***************************************************************************)
\* What the claims call a conversation "tagged favourite", read off the stored
\* tags text: some tag spells favourite in any letter case.
FavouriteTagged(row) ==
    \/ row.tags.kind = "array" /\ \E i \in DOMAIN row.tags.items :
            row.tags.items[i] \in {"favourite", "Favourite", "FAVOURITE"}
    \/ row.tags.kind = "other" /\ row.tags.fav

LowPriorityRow(row) == row.isLowPriority.Valid /\ row.isLowPriority.v # 0

UnreadRow(row) ==
    \/ row.isUnread.Valid /\ row.isUnread.v # 0
    \/ row.isMarkedUnread.Valid /\ row.isMarkedUnread.v # 0

ListedOk == op = "ListThreads" /\ err = NoErr

\* ids of the rows the storage query returned: they passed the account and day
\* filters and the row limit
FetchedIDs == Range(queries[1].rows)

ReturnedIDs == {ret[i].ID : i \in DOMAIN ret}

\* The archived state ListThreads reports for a returned conversation
ReportedArchived(id) == \E i \in DOMAIN ret : ret[i].ID = id /\ ret[i].IsArchived

\* C2 as stated: every favourite-tagged conversation among the fetched rows is in
\* the inbox result.
C2_AsStated ==
    (ListedOk /\ args.Label = LabelInbox) =>
        \A id \in FetchedIDs : FavouriteTagged(threads[id]) => id \in ReturnedIDs

\* C2: every favourite-tagged conversation among the fetched rows that is not
\* low-priority, or any favourite-tagged one when low-priority conversations are
\* included, is in the inbox result, whatever its archived state.
C2_FavouriteInInbox ==
    (ListedOk /\ args.Label = LabelInbox) =>
        \A id \in FetchedIDs :
            (FavouriteTagged(threads[id]) /\ (args.IncludeLowPriority \/ ~LowPriorityRow(threads[id])))
                => id \in ReturnedIDs

C2_Witness ==
    /\ ListedOk /\ args.Label = LabelInbox
    /\ \E id \in FetchedIDs : FavouriteTagged(threads[id]) /\ ReportedArchived(id)

\* C3: the archive result holds only conversations that are archived and not
\* favourite-tagged.
C3_ArchiveExcludesFavourite ==
    (ListedOk /\ args.Label = LabelArchive) =>
        \A i \in DOMAIN ret : ret[i].IsArchived /\ ~FavouriteTagged(threads[ret[i].ID])

C3_Witness ==
    /\ ListedOk /\ args.Label = LabelArchive /\ args.IncludeLowPriority
    /\ ret # <<>>
    /\ \E id \in FetchedIDs : FavouriteTagged(threads[id]) /\ id \notin ReturnedIDs
            /\ scanThread(threads, breadcrumbs, messages, id, FALSE).IsArchived

\* Membership under a label with the low-priority rule left out
LabelHolds(label, row, archived) ==
    CASE label = LabelInbox -> FavouriteTagged(row) \/ ~archived
      [] label = LabelArchive -> archived /\ ~FavouriteTagged(row)
      [] label = LabelFavourite -> FavouriteTagged(row)
      [] label = LabelUnread -> UnreadRow(row)
      [] OTHER -> TRUE

\* C4: without includeLowPriority no low-priority conversation is returned under
\* any label; with it, membership is the label's rule alone.
C4_LowPriority ==
    ListedOk =>
        /\ ~args.IncludeLowPriority => \A i \in DOMAIN ret : ~LowPriorityRow(threads[ret[i].ID])
        /\ args.IncludeLowPriority =>
            \A id \in FetchedIDs :
                id \in ReturnedIDs <=>
                    LabelHolds(args.Label, threads[id],
                               scanThread(threads, breadcrumbs, messages, id, FALSE).IsArchived)

C4_Witness ==
    /\ ListedOk /\ ~args.IncludeLowPriority /\ args.Label = LabelFavourite
    /\ \E id \in FetchedIDs :
        LowPriorityRow(threads[id]) /\ FavouriteTagged(threads[id]) /\ id \notin ReturnedIDs

\* C5: the returned list is in descending order of LastActivity.
C5_OrderedByLastActivity ==
    ListedOk => \A i, j \in DOMAIN ret : i < j => ~After(ret[j].LastActivity, ret[i].LastActivity)

(***************************************************************************)
(* Properties of SearchMessages                                            *)
(***************************************************************************)
\* Positions of the queries of one kind in the query log
Asked(kind) == {i \in DOMAIN queries : queries[i].kind = kind}

\* A search that got as far as choosing its query
Searched ==
    /\ op = "SearchMessages"
    /\ queries # <<>>
    /\ queries[1].kind = "fts_check" /\ queries[1].err = NoErr

\* The error texts that say the index table or the fts5 module is missing
IndexUnavailable(e) ==
    e \in {"no such module: fts5", "no such table: mx_room_messages_fts",
              "SQL logic error: no such table: MX_ROOM_MESSAGES_FTS"}

MatchIDsOf(results) == [i \in DOMAIN results |-> results[i].Match.ID]

\* C6: with the index table absent the substring query runs once and no MATCH
\* query runs; with it present the MATCH query runs once, and the substring
\* query runs (once) exactly when the MATCH query failed with an
\* index-unavailable error, which is then not the error returned; every other
\* MATCH error and every error of the substring query is returned with no
\* result; rows of the substring query carry relevance 0.
C6_FallbackOnce ==
    Searched =>
        LET m == Asked("match")
            l == Asked("like")
        IN  /\ Cardinality(m) <= 1 /\ Cardinality(l) <= 1
            /\ ~fts.exists => (m = {} /\ Cardinality(l) = 1)
            /\ fts.exists => Cardinality(m) = 1
            /\ \A i \in m :
                IF queries[i].err = NoErr THEN l = {}
                ELSE IF IndexUnavailable(queries[i].err)
                THEN Cardinality(l) = 1 /\ err # queries[i].err
                ELSE l = {} /\ err = queries[i].err /\ ret = <<>>
            /\ \A i \in l :
                IF queries[i].err # NoErr THEN err = queries[i].err /\ ret = <<>>
                ELSE err = NoErr =>
                        /\ MatchIDsOf(ret) = queries[i].rows
                        /\ \A k \in DOMAIN ret : ret[k].Match.Score = 0

C6_Witness ==
    /\ Searched /\ fts.exists /\ err = NoErr /\ ret # <<>>
    /\ \E i \in Asked("match") : IndexUnavailable(queries[i].err)
    /\ \E i \in Asked("like") : queries[i].err = NoErr

\* A query that is one literal token: letters and digits only
SingleToken(q) == q # <<>> /\ \A i \in DOMAIN q : IsAlnum(q[i])

\* A successful search for a single token on a snapshot without index table
FallbackRun ==
    /\ op = "SearchMessages" /\ err = NoErr
    /\ ~fts.exists
    /\ SingleToken(args.Query)

ReturnedMatches == Range(MatchIDsOf(ret))

\* Every message's $.text is its indexed text
SameText == \A id \in DOMAIN messages : jsonText(messages[id].message) = messages[id].text_content

\* What the same search returns on the same messages with the index populated
IndexedMatches(senv) ==
    Range(MatchIDsOf(
        SearchMessages(threads, messages, Populated(messages), participants, bridge, bridgeFiles,
                       cache, args, Now - args.Days * DayLength, AllOk, NoBEnv, senv).ret))

\* C7 as stated: on messages whose $.text is the indexed text, the search
\* without index table returns the same set of messages as the indexed search.
C7_AsStated ==
    (FallbackRun /\ SameText) => \E senv \in StorageEnvs : ReturnedMatches = IndexedMatches(senv)

\* No message holds the token only inside a longer word
WholeWordsOnly ==
    \A id \in DOMAIN messages :
        LikeMatch(messages[id].text_content, args.Query)
            => ToLower(args.Query) \in Tokens(messages[id].text_content.v)

\* C7: when every message's $.text is its indexed text and the substring
\* query's rows are fewer than the row limit, every message the indexed search
\* returns is returned by the search without index table; the two sets are
\* equal when moreover no message holds the token only inside a longer word.
C7_FallbackCovers ==
    (FallbackRun /\ SameText /\ Len(ret) < effectiveLimit(args.Limit)) =>
        \A senv \in StorageEnvs :
            /\ IndexedMatches(senv) \subseteq ReturnedMatches
            /\ WholeWordsOnly => IndexedMatches(senv) = ReturnedMatches

C7_Witness ==
    /\ FallbackRun /\ SameText /\ Len(ret) < effectiveLimit(args.Limit)
    /\ ret # <<>>
    /\ WholeWordsOnly
    /\ \A senv \in StorageEnvs : IndexedMatches(senv) = ReturnedMatches

\* A successful search that asked for context
ContextRun ==
    /\ op = "SearchMessages" /\ err = NoErr
    /\ args.Context > 0 \/ args.Window > 0

\* The window fetched for the k-th match: the rows of the k-th context query
FetchedWindow(k) ==
    LET c == Asked("context")
        i == CHOOSE i \in c : Cardinality({j \in c : j < i}) = k - 1
    IN  queries[i].rows

RequestedWindow == IF args.Window = 0 THEN defaultContextWindow ELSE args.Window

\* The messages the claim puts in the window of the stored message id
InWindowOf(id) ==
    {n \in DOMAIN messages :
        /\ messages[n].roomID = messages[id].roomID
        /\ messages[n].isDeleted = 0
        /\ messages[n].type \notin {HIDDEN, REACTION}
        /\ messages[n].timestamp >= messages[id].timestamp - RequestedWindow
        /\ messages[n].timestamp <= messages[id].timestamp + RequestedWindow}

WindowIs(k) ==
    LET w == FetchedWindow(k)
    IN  /\ Range(w) = InWindowOf(ret[k].Match.ID)
        /\ \A i, j \in DOMAIN w : i < j => messages[w[i]].timestamp <= messages[w[j]].timestamp
        /\ Len(w) = Cardinality(Range(w))

\* C9 as stated: the window fetched for each match is exactly the non-deleted,
\* non-HIDDEN/REACTION messages of the match's conversation with a timestamp
\* within the requested window (one hour for 0) of the match's, oldest first.
C9_WindowAroundMatch == ContextRun => \A k \in DOMAIN ret : WindowIs(k)

\* The same for the matches whose stored timestamp is not 0
C9_WindowAroundTimedMatch ==
    ContextRun => \A k \in DOMAIN ret : messages[ret[k].Match.ID].timestamp # 0 => WindowIs(k)

\* The window of a match whose stored timestamp is 0 is empty
C9_WindowOfUntimedMatch ==
    ContextRun =>
        \A k \in DOMAIN ret : messages[ret[k].Match.ID].timestamp = 0 => FetchedWindow(k) = <<>>

C9_TimedWitness ==
    /\ ContextRun
    /\ \E k \in DOMAIN ret : Len(FetchedWindow(k)) >= 3 /\ Len(FetchedWindow(k)) < Len(messages)

(***************************************************************************)
(* Properties of trimContext                                               *)
(***************************************************************************)
\* C8: for a context count N > 0 and the match at position i of the window,
\* the result is the window's positions max(1, i-N) .. min(len, i+N) in order
\* without position i; without the match in the window it is the window.
C8_TrimPositions ==
    (op = "trimContext" /\ args.context > 0) =>
        LET w == args.messages
            N == args.context
            P == {i \in DOMAIN w : w[i].ID = args.matchID}
        IN  IF P = {} THEN ret = w
            ELSE LET i == CHOOSE x \in P : \A y \in P : x <= y
                     lo == Max(1, i - N)
                     hi == Min(Len(w), i + N)
                 IN  /\ Len(ret) = hi - lo
                     /\ \A k \in 1..(hi - lo) :
                            ret[k] = w[IF lo + k - 1 < i THEN lo + k - 1 ELSE lo + k]

C8_Witness ==
    /\ op = "trimContext" /\ args.context = 1
    /\ Len(args.messages) = MaxWindowLen
    /\ args.messages[2].ID = args.matchID
    /\ ret = <<args.messages[1], args.messages[3]>>

(***************************************************************************)
(* Properties of the name cache                                            *)
(***************************************************************************)
\* One LookupDMName call on a resolver that knows a store
C10_Step ==
    (op = "" /\ op' = "LookupDMName" /\ bridge.present /\ DOMAIN bridge.platformDBs # {}) =>
        LET id == args'.roomID
        IN  /\ \A r \in DOMAIN cache : r \in DOMAIN cache' /\ cache'[r] = cache[r]
            /\ DOMAIN cache' \subseteq DOMAIN cache \cup {id}
            /\ err' # NoErr => cache' = cache
            /\ (id \notin DOMAIN cache /\ err' = NoErr) =>
                    /\ id \in DOMAIN cache'
                    /\ cache'[id] = ret'.name
                    /\ ret'.ok <=> ret'.name # <<>>
            /\ id \in DOMAIN cache =>
                    /\ opened' = <<>>
                    /\ err' = NoErr
                    /\ ret' = [name |-> cache[id], ok |-> cache[id] # <<>>]

\* C10: a lookup changes no existing cache entry and adds at most the entry of
\* its own conversation; it adds none when it ends in an error, and the
\* returned outcome (the empty one too) when it ends without; a lookup of a
\* cached conversation returns the cached outcome and opens no store.
C10_CacheDiscipline == [][C10_Step]_vars

C10_Witness ==
    /\ op = "LookupDMName" /\ err = NoErr
    /\ opened = <<>>
    /\ args.roomID \in DOMAIN cache
    /\ ret.ok /\ ret.name = cache[args.roomID]
    /\ \E r \in DOMAIN cache : cache[r] = <<>>

(***************************************************************************)
(* Frame                                                                   *)
(***************************************************************************)
\* C1: no step of any operation changes the primary store, a secondary store
\* or the set of known stores.
C1_StoresUnchanged == [][UNCHANGED <<storeVars, bridgeFiles, bridge>>]_vars

C1_Witness == op \in {"ListThreads", "GetThread", "SearchMessages"} /\ cache # <<>>

(***************************************************************************)
(* Properties of display names                                             *)
(***************************************************************************)
\* The conversations a finished ListThreads or GetThread returns
NamedThreads == IF op = "GetThread" THEN {ret} ELSE Range(ret)

\* What a conversation is called after its participants: the names of the
\* participants other than the user, read off the participants table
ParticipantNames(t) ==
    LET Other(row) == row.room_id = t.ID /\ ~(row.is_self.Valid /\ row.is_self.v # 0)
        others == SelectSeq(participants, Other)
        names == [i \in DOMAIN others |-> participantOf(others[i]).Name]
    IN  IF names = <<>> THEN Unknown
        ELSE IF IsDirect(t.Type) THEN names[1]
        ELSE IF Len(names) <= 3 THEN Join(names)
        ELSE Join(SubSeq(names, 1, 3)) \o <<" ", "+">> \o Itoa(Len(names) - 3)

\* The resolver has no business with a conversation that has a title or a
\* name or is not direct
NoResolverCase(t) == t.Title # <<>> \/ t.Name # <<>> \/ ~IsDirect(t.Type)

C11_Step ==
    (op' \in {"ListThreads", "GetThread"} /\ err' = NoErr) =>
        /\ \A t \in NamedThreads' :
            LET found == t.ID \in DOMAIN cache' /\ cache'[t.ID] # <<>>
                resolver == bridge.present /\ IsDirect(t.Type)
                untitled == t.Title = <<>> /\ t.Name = <<>>
            IN  /\ t.Title # <<>> => t.DisplayName = t.Title
                /\ (t.Title = <<>> /\ t.Name # <<>>) => t.DisplayName = t.Name
                /\ (untitled /\ resolver /\ found) => t.DisplayName = cache'[t.ID]
                /\ (untitled /\ ~(resolver /\ found)) => t.DisplayName = ParticipantNames(t)
                /\ NoResolverCase(t) =>
                        /\ t.ID \in DOMAIN cache' <=> t.ID \in DOMAIN cache
                        /\ t.ID \in DOMAIN cache => cache'[t.ID] = cache[t.ID]
        /\ (\A t \in NamedThreads' : NoResolverCase(t)) => (cache' = cache /\ opened' = <<>>)

\* C11: a returned conversation is called by its title if it has one, else by
\* its name if it has one, else, if it is direct and there is a resolver that
\* knows a name for it, by that name, else after its participants other than
\* the user; naming a conversation that has a title or a name or is not direct
\* leaves its cache entry as it was and opens no secondary store.
C11_DisplayNamePriority == [][C11_Step]_vars

\* a titled direct conversation that the resolver's store knows was named
\* without the resolver
C11_Witness ==
    /\ op = "GetThread" /\ err = NoErr
    /\ ret.Title # <<>> /\ IsDirect(ret.Type) /\ ret.DisplayName = ret.Title
    /\ bridge.present /\ ret.ID \in DOMAIN bridgeFiles["p1"].portal
    /\ cache = <<>> /\ opened = <<>>

\* an untitled direct conversation with participants got the resolver's name
C11_ResolvedWitness ==
    /\ op \in {"ListThreads", "GetThread"} /\ err = NoErr
    /\ \E t \in NamedThreads :
        /\ t.Title = <<>> /\ t.Name = <<>> /\ t.ID \in DOMAIN cache
        /\ t.DisplayName = cache[t.ID] /\ t.DisplayName # ParticipantNames(t)

\* a group without title and name is called after its four participants
C11_GroupWitness ==
    /\ op = "GetThread" /\ err = NoErr
    /\ ret.DisplayName = <<"A", ",", " ", "B", ",", " ", "C", " ", "+", "1">>

\* The resolver is asked about a conversation with these fields, and a lookup
\* that gets as far as a store ends with a cache entry unless a store failed
NeedsResolver(t) ==
    /\ t.Title = <<>> /\ t.Name = <<>> /\ IsDirect(t.Type)
    /\ bridge.present /\ DOMAIN bridge.platformDBs # {}

\* The conversations of the matches a finished SearchMessages returns
MatchedThreads == {threadInfoOf(threads, ret[i].Match.ThreadID) : i \in DOMAIN ret}

\* C12 as stated: ListThreads, GetThread and SearchMessages return a result
\* only if no resolver lookup made for it ended in a store error; that is,
\* every returned conversation the resolver was asked about has a cache entry.
C12_LookupErrorsPropagate ==
    /\ (op \in {"ListThreads", "GetThread"} /\ err = NoErr) =>
            \A t \in NamedThreads : NeedsResolver(t) => t.ID \in DOMAIN cache
    /\ (op = "SearchMessages" /\ err = NoErr) =>
            \A t \in MatchedThreads : NeedsResolver(t) => t.ID \in DOMAIN cache

\* What the code does: a lookup that ends in a store error is treated like a
\* name that was not found, and the conversation is called after its
\* participants.
C12_LookupErrorsSwallowed ==
    (op = "GetThread" /\ err = NoErr /\ NeedsResolver(ret) /\ ret.ID \notin DOMAIN cache) =>
        ret.DisplayName = ParticipantNames(ret)

C12_SwallowedWitness ==
    /\ op = "GetThread" /\ err = NoErr /\ NeedsResolver(ret) /\ ret.ID \notin DOMAIN cache
    /\ opened # <<>>

(***************************************************************************)
(* Properties of failures                                                  *)
(***************************************************************************)
\* Every query the operation issued succeeded and none returned a row
NoRowsMatched ==
    /\ queries # <<>>
    /\ \A i \in DOMAIN queries : queries[i].err = NoErr /\ queries[i].rows = <<>>

\* C13: GetThread of an ID no conversation has fails and returns no thread
\* data; a GetThread that succeeds returns the conversation of the requested
\* ID; ListThreads and SearchMessages whose queries succeed without a row
\* succeed with an empty result.
C13_MissingThreadFails ==
    /\ (op = "GetThread" /\ args.threadID \notin DOMAIN threads) => (err # NoErr /\ ret = <<>>)
    /\ (op = "GetThread" /\ err = NoErr) =>
            (args.threadID \in DOMAIN threads /\ ret # <<>> /\ ret.ID = args.threadID)
    /\ (op \in {"ListThreads", "SearchMessages"} /\ NoRowsMatched) => (err = NoErr /\ ret = <<>>)

\* GetThread of an unknown ID failed after its query found no row, after a
\* list or search without rows would have succeeded
C13_Witness ==
    /\ op = "GetThread" /\ args.threadID \notin DOMAIN threads
    /\ err = "sql: no rows in result set" /\ ret = <<>>
    /\ queries = <<[kind |-> "thread", rows |-> <<>>, err |-> NoErr]>>

C13_EmptyListWitness == op = "ListThreads" /\ NoRowsMatched /\ err = NoErr /\ ret = <<>>

C13_EmptySearchWitness == op = "SearchMessages" /\ NoRowsMatched /\ err = NoErr /\ ret = <<>>

\* A query text that is empty or holds white space only
Blank(text) == \A i \in DOMAIN text : IsSpace(text[i])

\* C14: ListMessages without a conversation ID and SearchMessages with a
\* blank query return an error and no result, and issue no query on the
\* primary store and open no secondary store.
C14_ValidationFirst ==
    /\ (op = "ListMessages" /\ args.ThreadID = "") =>
            (err # NoErr /\ ret = <<>> /\ queries = <<>> /\ opened = <<>>)
    /\ (op = "SearchMessages" /\ Blank(args.Query)) =>
            (err # NoErr /\ ret = <<>> /\ queries = <<>> /\ opened = <<>>)

C14_Witness ==
    /\ op = "ListMessages" /\ args.ThreadID = ""
    /\ err = "thread ID is required" /\ queries = <<>>

C14_BlankQueryWitness ==
    /\ op = "SearchMessages" /\ args.Query = <<" ">>
    /\ err = "search query is required" /\ queries = <<>>

C14_EmptyQueryWitness ==
    /\ op = "SearchMessages" /\ args.Query = <<>>
    /\ err = "search query is required" /\ queries = <<>>

(***************************************************************************)
(* Properties of the favourite and unread labels                           *)
(***************************************************************************)
\* The fetched rows that pass the low-priority rule of the request
PassLowPriority ==
    {id \in FetchedIDs : args.IncludeLowPriority \/ ~LowPriorityRow(threads[id])}

\* C15: under the label favourite ListThreads returns, once each, exactly the
\* fetched conversations that pass the low-priority rule and carry the
\* favourite tag; under the label unread exactly those whose unread flag or
\* marked-unread flag is set.
C15_LabelsExact ==
    /\ (ListedOk /\ args.Label = LabelFavourite) =>
            /\ ReturnedIDs = {id \in PassLowPriority : FavouriteTagged(threads[id])}
            /\ Len(ret) = Cardinality(ReturnedIDs)
    /\ (ListedOk /\ args.Label = LabelUnread) =>
            /\ ReturnedIDs = {id \in PassLowPriority : UnreadRow(threads[id])}
            /\ Len(ret) = Cardinality(ReturnedIDs)

\* under unread, a conversation that is only marked unread is returned and a
\* read one is not
C15_Witness ==
    /\ ListedOk /\ args.Label = LabelUnread
    /\ \E id \in ReturnedIDs :
            /\ ~threads[id].isUnread.Valid
            /\ threads[id].isMarkedUnread.Valid /\ threads[id].isMarkedUnread.v # 0
    /\ \E id \in PassLowPriority : id \notin ReturnedIDs

\* under favourite, of two fetched conversations one is returned
C15_FavouriteWitness ==
    /\ ListedOk /\ args.Label = LabelFavourite /\ args.IncludeLowPriority
    /\ Cardinality(FetchedIDs) = 2 /\ Cardinality(ReturnedIDs) = 1

(***************************************************************************)
(* Properties of the text renderer                                         *)
(***************************************************************************)
Rendered(format) == op = "ResolveMessageText" /\ args.format = format

\* The string a key of a payload holds, trimmed; empty if the key is absent
\* or holds no string
StringAt(fields, key) ==
    IF key \in DOMAIN fields /\ fields[key].str THEN TrimSpace(fields[key].s) ELSE <<>>

HoldsString(fields, key) == key \in DOMAIN fields /\ fields[key].str

\* The body/text value of a payload: of the first of the two keys that holds
\* a string
BodyOrText(fields) ==
    IF HoldsString(fields, "body") THEN StringAt(fields, "body") ELSE StringAt(fields, "text")

\* The file name of a payload: of the first of filename, name that holds a string
FileNameOf(fields) ==
    IF HoldsString(fields, "filename") THEN StringAt(fields, "filename")
    ELSE StringAt(fields, "name")

\* C16 as stated: for a message of type TEXT rich mode returns what plain mode
\* returns on the same payload and pre-rendered text.
C16_RichTextAsPlain ==
    (Rendered(FormatRich) /\ args.msgType = TEXT) =>
        ret = ResolveMessageText(args.rawMessage, args.msgType, args.textContent, FormatPlain)

\* What the code does for type TEXT: rich mode prefers the text of the payload
\* and plain mode the pre-rendered text, so the two agree exactly when one of
\* the two texts is blank and the other is not, or the two are equal.
C16_RichTextPrefersPayload ==
    (Rendered(FormatRich) /\ args.msgType = TEXT) =>
        LET payloadText == extractMessageText(args.rawMessage, TEXT, FALSE)
            plain == ResolveMessageText(args.rawMessage, TEXT, args.textContent, FormatPlain)
        IN  /\ ret = IF ~Blank(payloadText) THEN payloadText ELSE args.textContent
            /\ ret = plain <=>
                    \/ payloadText = args.textContent
                    \/ Blank(payloadText) # Blank(args.textContent)

\* C17 as stated: plain mode returns the pre-rendered text when it is
\* non-empty.
C17_AsStated ==
    (Rendered(FormatPlain) /\ args.textContent # <<>>) => ret = args.textContent

\* C17: plain mode returns the pre-rendered text when it is not blank;
\* otherwise the body/text value of a payload that is a JSON object, and the
\* empty string for no payload; in neither case a bracketed placeholder.
C17_PlainText ==
    Rendered(FormatPlain) =>
        /\ ~Blank(args.textContent) => ret = args.textContent
        /\ (Blank(args.textContent) /\ args.rawMessage.kind = "object") =>
                ret = BodyOrText(args.rawMessage.fields)
        /\ (Blank(args.textContent) /\ args.rawMessage.kind = "empty") => ret = <<>>
        /\ ~HasPrefix(ret, <<"[">>)

\* a FILE payload without body and text and without pre-rendered text renders
\* as the empty string in plain mode
C17_Witness ==
    /\ Rendered(FormatPlain) /\ args.msgType = FILE /\ args.textContent = <<>>
    /\ args.rawMessage.kind = "object"
    /\ DOMAIN args.rawMessage.fields = {"url", "filename"}
    /\ ret = <<>>

\* C18: in rich mode a FILE message whose payload is a JSON object renders as
\* "[File: <name> - <url>]" with a file name and a URL, "[File: <name>]" with
\* a file name only, "[File: <url>]" with a URL only, "[File]" with neither.
C18_FilePlaceholder ==
    (Rendered(FormatRich) /\ args.msgType = FILE /\ args.rawMessage.kind = "object") =>
        LET name == FileNameOf(args.rawMessage.fields)
            url == StringAt(args.rawMessage.fields, "url")
            file == <<"[", "F", "i", "l", "e">>
        IN  /\ (name # <<>> /\ url # <<>>) =>
                    ret = file \o <<":", " ">> \o name \o <<" ", "-", " ">> \o url \o <<"]">>
            /\ (name # <<>> /\ url = <<>>) => ret = file \o <<":", " ">> \o name \o <<"]">>
            /\ (name = <<>> /\ url # <<>>) => ret = file \o <<":", " ">> \o url \o <<"]">>
            /\ (name = <<>> /\ url = <<>>) => ret = file \o <<"]">>

C18_Witness ==
    /\ Rendered(FormatRich) /\ args.msgType = FILE /\ args.rawMessage.kind = "object"
    /\ ret = <<"[", "F", "i", "l", "e", ":", " ", "f", " ", "-", " ", "u", "]">>

C18_UrlOnlyWitness ==
    /\ Rendered(FormatRich) /\ args.msgType = FILE /\ args.rawMessage.kind = "object"
    /\ ret = <<"[", "F", "i", "l", "e", ":", " ", "u", "]">>

(***************************************************************************)
(* Properties of the archived state                                        *)
(***************************************************************************)
\* The number a marker text stands for, for the texts tried; an integer is at
\* most 3.5 exactly if it is at most 3.  The prefix ts is cut off in both
\* letter cases; no other prefix is.
MarkerNumber(m) ==
    CASE m = Val(<<"3">>) -> [ok |-> TRUE, v |-> 3]
      [] m = Val(<<"3", ".", "5">>) -> [ok |-> TRUE, v |-> 3]
      [] m = Val(<<" ", "t", "s", "5">>) -> [ok |-> TRUE, v |-> 5]
      [] m = Val(Itoa(archivedTsThreshold)) -> [ok |-> TRUE, v |-> archivedTsThreshold]
      [] m = Val(<<"T", "S">> \o Itoa(Ts(1))) -> [ok |-> TRUE, v |-> Ts(1)]
      [] OTHER -> [ok |-> FALSE, v |-> 0]

\* The same with any non-numeric prefix cut off
MarkerNumberAnyPrefix(m) ==
    IF m = Val(<<"x", "5">>) THEN [ok |-> TRUE, v |-> 5] ELSE MarkerNumber(m)

Computed == op = "computeArchived"

\* Rule 1 applies: the ordering marker holds a number and latest-order is known
RuleOne == MarkerNumber(args.archivedUpToOrder).ok /\ args.latestHsOrder.Valid

RuleTwo(n) ==
    (Computed /\ ~RuleOne /\ n.ok) =>
        IF n.v > archivedTsThreshold
        THEN (ret <=> (args.lastMessage.Valid => args.lastMessage.v <= n.v))
        ELSE (ret <=> (args.latestHsOrder.Valid => args.latestHsOrder.v <= n.v))

\* C20 as stated: the number of the archived-through marker is read after
\* cutting off its non-numeric prefix.
C20_AsStated == RuleTwo(MarkerNumberAnyPrefix(args.archivedUpto))

\* C20: when rule 1 does not apply and the archived-through marker, after an
\* optional leading ts in any letter case, holds a number v: if v is above
\* the threshold, archived iff the last-message timestamp is unknown or at
\* most v; otherwise archived iff latest-order is unknown or at most v.
C20_RuleTwo == RuleTwo(MarkerNumber(args.archivedUpto))

\* a marker equal to the threshold was compared with latest-order, and the
\* last-message timestamp, which is later, was not looked at
C20_Witness ==
    /\ Computed /\ ~RuleOne /\ ret
    /\ MarkerNumber(args.archivedUpto) = [ok |-> TRUE, v |-> archivedTsThreshold]
    /\ args.latestHsOrder.Valid /\ args.latestHsOrder.v <= archivedTsThreshold
    /\ args.lastMessage.Valid /\ args.lastMessage.v > archivedTsThreshold

\* a timestamp marker with an unknown last-message timestamp: archived
C20_UnknownWitness ==
    /\ Computed /\ ~RuleOne /\ ret
    /\ MarkerNumber(args.archivedUpto).ok
    /\ MarkerNumber(args.archivedUpto).v > archivedTsThreshold
    /\ ~args.lastMessage.Valid /\ args.latestHsOrder.Valid

\* C21: when rule 1 does not apply and the archived-through marker holds no
\* number, computeArchived returns true exactly if the marker is present and
\* not blank; without a marker it returns false.
C21_TextualFallback ==
    (Computed /\ ~RuleOne /\ ~MarkerNumber(args.archivedUpto).ok) =>
        /\ ret <=> (args.archivedUpto.Valid /\ ~Blank(args.archivedUpto.v))
        /\ ~args.archivedUpto.Valid => ~ret

\* a marker that is a word made the conversation archived although its
\* latest-order and last-message timestamp are known
C21_Witness ==
    /\ Computed /\ ~RuleOne /\ ret
    /\ args.archivedUpto = Val(<<"y", "e", "s">>)
    /\ args.latestHsOrder.Valid /\ args.lastMessage.Valid

\* a marker of white space, and no marker with an ordering marker that holds
\* no number: not archived
C21_BlankWitness ==
    /\ Computed /\ ~RuleOne /\ ~ret
    /\ args.archivedUpto = Val(<<" ">>)

C21_AbsentWitness ==
    /\ Computed /\ ~RuleOne /\ ~ret
    /\ ~args.archivedUpto.Valid /\ args.archivedUpToOrder = Val(<<"y", "e", "s">>)

(***************************************************************************)
(* Properties of the last-activity timestamp                               *)
(***************************************************************************)
\* The three timestamps of a conversation, read off the tables, without the
\* absent ones and the zeros: of its latest message that is neither HIDDEN nor
\* REACTION, of its last opening, and of its own row
ActivityComponents(id) ==
    ({messages[n].timestamp :
        n \in {n \in DOMAIN messages : /\ messages[n].roomID = id
                                        /\ messages[n].type \notin {HIDDEN, REACTION}}}
     \cup (IF id \in DOMAIN breadcrumbs /\ breadcrumbs[id].Valid THEN {breadcrumbs[id].v} ELSE {})
     \cup {threads[id].timestamp})
    \ {0}

\* C22: the last-activity timestamp of every returned conversation is the
\* greatest of its last-message, last-open and metadata timestamps that are
\* present and not zero, and the zero time when there is none.
C22_LastActivityIsMax ==
    ListedOk =>
        \A i \in DOMAIN ret :
            LET S == ActivityComponents(ret[i].ID)
            IN  ret[i].LastActivity = IF S = {} THEN ZeroTime ELSE UnixMilli(SetMax(S))

\* a conversation opened after its last message and after its metadata
\* timestamp: the last opening is its last activity
C22_Witness ==
    /\ ListedOk
    /\ \E i \in DOMAIN ret :
        LET id == ret[i].ID
        IN  /\ id \in DOMAIN breadcrumbs /\ breadcrumbs[id].Valid
            /\ ret[i].LastActivity = UnixMilli(breadcrumbs[id].v)
            /\ threads[id].timestamp # 0 /\ threads[id].timestamp < breadcrumbs[id].v
            /\ \E n \in DOMAIN messages :
                    messages[n].roomID = id /\ messages[n].timestamp < breadcrumbs[id].v

\* no message, a last opening of 0 and a metadata timestamp of 0: the zero time
C22_ZeroWitness ==
    /\ ListedOk
    /\ \E i \in DOMAIN ret :
        /\ ret[i].LastActivity = ZeroTime
        /\ ret[i].ID \in DOMAIN breadcrumbs /\ breadcrumbs[ret[i].ID] = Val(0)

\* a zero metadata timestamp next to a message: the message's timestamp
C22_ZeroLosesWitness ==
    /\ ListedOk
    /\ \E i \in DOMAIN ret :
        /\ threads[ret[i].ID].timestamp = 0
        /\ ~ret[i].LastActivity.isZero

(***************************************************************************)
(* Properties of the participant fallback of display names                 *)
(***************************************************************************)
\* A returned conversation that is called after its participants: it has no
\* title and no name, and no resolver name is remembered for it
FallsBack(t) ==
    /\ t.Title = <<>> /\ t.Name = <<>>
    /\ ~(bridge.present /\ IsDirect(t.Type) /\ t.ID \in DOMAIN cache /\ cache[t.ID] # <<>>)

\* Names of the participants of a conversation other than the user, in table order
OtherNames(t) ==
    LET Other(row) == row.room_id = t.ID /\ ~(row.is_self.Valid /\ row.is_self.v # 0)
        others == SelectSeq(participants, Other)
    IN  [i \in DOMAIN others |-> participantOf(others[i]).Name]

\* The joined form: all names with ", " between them, or the first three and
\* the number of the others; the sentinel for no name at all
JoinedNames(names) ==
    IF names = <<>> THEN Unknown
    ELSE IF Len(names) <= 3 THEN Join(names)
    ELSE Join(SubSeq(names, 1, 3)) \o <<" ", "+">> \o Itoa(Len(names) - 3)

NamedOk == op \in {"ListThreads", "GetThread"} /\ err = NoErr

\* C23 as stated: every conversation called after its participants carries
\* the joined form of their names.
C23_AsStated ==
    NamedOk => \A t \in NamedThreads : FallsBack(t) => t.DisplayName = JoinedNames(OtherNames(t))

\* C23: a conversation called after its participants is called "(unknown)"
\* when no participant other than the user is known (the user alone does not
\* count); otherwise, if it is direct, by the first such participant's name
\* alone; otherwise by the joined form: up to three names with ", " between
\* them, more than three as the first three followed by " +k" for the k others.
C23_ParticipantFallback ==
    NamedOk =>
        \A t \in NamedThreads :
            FallsBack(t) =>
                LET names == OtherNames(t)
                IN  t.DisplayName = IF names # <<>> /\ IsDirect(t.Type) THEN names[1]
                                    ELSE JoinedNames(names)

\* a group of four others, listed with the user's own participants asked for
C23_Witness ==
    /\ op = "ListThreads" /\ err = NoErr
    /\ \E i \in DOMAIN ret :
        /\ FallsBack(ret[i]) /\ ~IsDirect(ret[i].Type)
        /\ Len(OtherNames(ret[i])) = 4
        /\ ret[i].DisplayName = <<"A", ",", " ", "B", ",", " ", "C", " ", "+", "1">>

\* a direct conversation with four others is called by the first one
C23_DirectWitness ==
    /\ NamedOk
    /\ \E t \in NamedThreads :
        FallsBack(t) /\ IsDirect(t.Type) /\ Len(OtherNames(t)) = 4 /\ t.DisplayName = <<"A">>

\* the user is the only known participant: the sentinel
C23_SelfOnlyWitness ==
    /\ op = "GetThread" /\ err = NoErr /\ FallsBack(ret)
    /\ Len(ret.Participants) = 1 /\ ret.Participants[1].IsSelf
    /\ ret.DisplayName = Unknown

\* the user and one other: the other's name, without separator
C23_PairWitness ==
    /\ op = "GetThread" /\ err = NoErr /\ FallsBack(ret) /\ ~IsDirect(ret.Type)
    /\ Len(ret.Participants) = 2 /\ ret.DisplayName = <<"A">>

(***************************************************************************)
(* Properties of the choice of stores                                      *)
(***************************************************************************)
\* The store key an account ID stands for, for the account IDs tried
PlatformKey(accountID) ==
    CASE accountID \in {"whatsapp", "WhatsApp"} -> "whatsapp"
      [] accountID = "local-telegram" -> "telegram"
      [] OTHER -> accountID

\* The paths of the stores opened by an operation, in order
OpenedPaths(events) ==
    LET IsOpen(e) == e[1] = "open"
        opens == SelectSeq(events, IsOpen)
    IN  [i \in DOMAIN opens |-> opens[i][2]]

\* The store at a path maps the room to a contact with a non-blank name
StoreYields(path, roomID) ==
    LET db == bridgeFiles[path]
    IN  /\ roomID \in DOMAIN db.portal /\ db.portal[roomID].Valid
        /\ db.portal[roomID].v \in DOMAIN db.ghost
        /\ ~Blank(db.ghost[db.portal[roomID].v])

C24_Step ==
    (/\ op = "" /\ op' = "LookupDMName"
     /\ bridge.present /\ DOMAIN bridge.platformDBs # {}
     /\ args'.roomID \notin DOMAIN cache) =>
        LET id == args'.roomID
            key == PlatformKey(args'.accountID)
            paths == OpenedPaths(opened')
            found == ret'.ok
        IN  /\ key \in DOMAIN bridge.platformDBs =>
                /\ Len(paths) <= 1
                /\ \A i \in DOMAIN paths : paths[i] = bridge.platformDBs[key]
                /\ err' = NoErr =>
                        /\ paths = <<bridge.platformDBs[key]>>
                        /\ found <=> StoreYields(bridge.platformDBs[key], id)
            /\ key \notin DOMAIN bridge.platformDBs =>
                /\ \A i \in DOMAIN paths : paths[i] \in Range(bridge.platformDBs)
                /\ \A i, j \in DOMAIN paths : i # j => paths[i] # paths[j]
                /\ \A i \in DOMAIN paths : StoreYields(paths[i], id) => i = Len(paths)
                /\ (err' = NoErr /\ found) => (paths # <<>> /\ StoreYields(paths[Len(paths)], id))
                /\ (err' = NoErr /\ ~found) =>
                        /\ Range(paths) = Range(bridge.platformDBs)
                        /\ \A i \in DOMAIN paths : ~StoreYields(paths[i], id)
            /\ err' # NoErr =>
                /\ ~found /\ ret'.name = <<>>
                /\ err'[1] = "bridge" /\ err'[3] \in Range(bridge.platformDBs)
                /\ \A i \in DOMAIN paths : paths[i] = err'[3] => i = Len(paths)

\* C24: a lookup of a conversation that is not cached, with an account ID that
\* stands for a known store, opens that store and no other, and finds a name
\* exactly if that store yields one; with any other account ID it opens known
\* stores one after another, none twice and none after the first that yields
\* a name, and reports not-found only after every known store yielded none.
\* An error is the failure of a store, and no store is opened after it.
C24_StoreSelection == [][C24_Step]_vars

\* the account's own store yields no name, the other store would: not found,
\* and the other store was not opened
C24_Witness ==
    /\ op = "LookupDMName" /\ err = NoErr /\ ~ret.ok
    /\ args.accountID = "WhatsApp"
    /\ OpenedPaths(opened) = <<"p1">>
    /\ "p2" \in DOMAIN bridgeFiles /\ StoreYields("p2", args.roomID)

\* an unknown account: the second store opened yields the name
C24_SecondStoreWitness ==
    /\ op = "LookupDMName" /\ err = NoErr /\ ret.ok
    /\ args.accountID = "signal"
    /\ Len(OpenedPaths(opened)) = 2

\* no account: the first store opened yields the name, the second is not opened
C24_FirstStoreWitness ==
    /\ op = "LookupDMName" /\ err = NoErr /\ ret.ok
    /\ args.accountID = ""
    /\ Len(OpenedPaths(opened)) = 1 /\ DOMAIN bridgeFiles = {"p1", "p2"}

\* the first store failed: an error, and the second, which would yield a
\* name, was not opened
C24_ErrorWitness ==
    /\ op = "LookupDMName" /\ err # NoErr
    /\ Len(OpenedPaths(opened)) = 1
    /\ \E q \in DOMAIN bridgeFiles :
            q \notin Range(OpenedPaths(opened)) /\ StoreYields(q, args.roomID)

(***************************************************************************)
(* Properties of the secondary handles                                     *)
(***************************************************************************)
\* The handles open after the first n events
OpenAfter(events, n) ==
    {p \in Range(bridge.platformDBs) :
        \E i \in 1..n :
            /\ events[i] = <<"open", p>>
            /\ \A j \in (i + 1)..n : events[j] # <<"close", p>>}

\* C25: at every point of an operation at most one secondary handle is open,
\* only an open handle is closed, and when the operation has returned (with a
\* name, without one or with an error) none is open; between operations
\* there is no handle event at all.
C25_HandlesClosed ==
    /\ \A n \in 0..Len(opened) : Cardinality(OpenAfter(opened, n)) <= 1
    /\ \A n \in 1..Len(opened) :
            opened[n][1] = "close" => opened[n][2] \in OpenAfter(opened, n - 1)
    /\ OpenAfter(opened, Len(opened)) = {}
    /\ op = "" => opened = <<>>

\* a lookup that opened a store and ended in an error of that store
C25_Witness ==
    /\ op = "LookupDMName" /\ err # NoErr
    /\ opened = <<<<"open", err[3]>>, <<"close", err[3]>>>>

\* a lookup that went through two stores and found no name
C25_TwoStoresWitness ==
    /\ op = "LookupDMName" /\ err = NoErr /\ ~ret.ok
    /\ Len(opened) = 4 /\ opened[2][1] = "close" /\ opened[3][1] = "open"
    /\ opened[1][2] # opened[3][2]

\* a lookup that found a name
C25_FoundWitness ==
    /\ op = "LookupDMName" /\ err = NoErr /\ ret.ok /\ Len(opened) = 2

(***************************************************************************)
(* Properties of the type-tag placeholder                                  *)
(***************************************************************************)
MESSAGE == <<"M", "E", "S", "S", "A", "G", "E">>

\* The types with a placeholder policy of their own
RecognizedTypes ==
    {TEXT, <<"I", "M", "A", "G", "E">>, <<"V", "I", "D", "E", "O">>, <<"A", "U", "D", "I", "O">>,
     FILE, <<"L", "O", "C", "A", "T", "I", "O", "N">>, <<"C", "O", "N", "T", "A", "C", "T">>,
     <<"S", "T", "I", "C", "K", "E", "R">>}

\* The raw text of a payload: the body/text value of a document, the value of
\* a JSON string, and the payload itself otherwise
RawText(rawMessage) ==
    CASE rawMessage.kind = "object" -> BodyOrText(rawMessage.fields)
      [] rawMessage.kind = "string" -> rawMessage.s
      [] OTHER -> rawMessage.raw

\* "[tag]", followed by the raw text if there is any
Placeholder(tag, text) ==
    IF Blank(text) THEN <<"[">> \o tag \o <<"]">>
    ELSE <<"[">> \o tag \o <<"]", " ">> \o TrimSpace(text)

\* A rich rendering of a payload that is not empty, for a type other than
\* TEXT that is unrecognized or with a payload that is no document
FallbackCase ==
    /\ Rendered(FormatRich)
    /\ args.rawMessage.kind # "empty"
    /\ ToUpper(args.msgType) # TEXT
    /\ ToUpper(args.msgType) \notin RecognizedTypes \/ args.rawMessage.kind # "object"

\* C26 as stated: such a message renders as "[<TYPE>]" followed by its raw
\* text, if any, and with "MESSAGE" for an empty type tag.
C26_TypeTagPlaceholder ==
    FallbackCase =>
        IF args.msgType = <<>>
        THEN ret \in {<<"[">> \o MESSAGE \o <<"]">>, Placeholder(MESSAGE, RawText(args.rawMessage))}
        ELSE ret = Placeholder(ToUpper(args.msgType), RawText(args.rawMessage))

\* What the code does: with a type tag that is not empty the placeholder is
\* as stated; an empty type tag is taken for TEXT, so the raw text is
\* rendered as it is (or the pre-rendered text, if the raw text is blank) and
\* "[MESSAGE]" is never produced.
C26_EmptyTypeIsText ==
    /\ (FallbackCase /\ args.msgType # <<>>) =>
            ret = Placeholder(ToUpper(args.msgType), RawText(args.rawMessage))
    /\ (FallbackCase /\ args.msgType = <<>>) =>
            /\ ret = IF Blank(RawText(args.rawMessage)) THEN args.textContent
                      ELSE RawText(args.rawMessage)
            /\ ret = ResolveMessageText(args.rawMessage, TEXT, args.textContent, FormatRich)
    /\ Rendered(FormatRich) => ret # <<"[">> \o MESSAGE \o <<"]">>

\* an unrecognized type with a document that holds a text
C26_NamedTypeWitness ==
    /\ FallbackCase /\ args.rawMessage.kind = "object"
    /\ ret = <<"[", "P", "O", "L", "L", "]", " ", "t">>

\* a recognized type, in lower case, with a payload that is not JSON
C26_UnparsableWitness ==
    /\ FallbackCase /\ args.rawMessage.kind = "invalid"
    /\ args.msgType = <<"f", "i", "l", "e">>
    /\ ret = <<"[", "F", "I", "L", "E", "]", " ", "x">>

\* an empty type tag with a payload that is not JSON: the payload as it is
C26_EmptyTypeWitness ==
    /\ FallbackCase /\ args.msgType = <<>> /\ args.rawMessage.kind = "invalid"
    /\ ret = args.rawMessage.raw

(***************************************************************************)
(* Properties of the inbox and the archive together                        *)
(***************************************************************************)
\* What the listing just made returns under another label, on the same
\* snapshot, with the same options and the same rows from the storage
RelistedIDs(label) ==
    Range(IDsOf(ListThreads(threads, breadcrumbs, messages, participants, bridge, bridgeFiles,
                            cache, [args EXCEPT !.Label = label], queries[1].rows, AllOk,
                            NoBEnv).ret))

\* C27: on one snapshot and under one includeLowPriority setting, the inbox
\* and the archive results are disjoint, their union is the result under the
\* label all, and that result is the fetched conversations that pass the
\* low-priority rule.
C27_InboxArchivePartition ==
    (ListedOk /\ args.Label = LabelAll) =>
        LET parts(inbox, archive) ==
                /\ inbox \cap archive = {}
                /\ inbox \cup archive = ReturnedIDs
                /\ ReturnedIDs = PassLowPriority
        IN  parts(RelistedIDs(LabelInbox), RelistedIDs(LabelArchive))

\* two conversations pass the low-priority rule: an archived favourite, which
\* is in the inbox, and an archived one without the tag, which is in the archive
C27_Witness ==
    /\ ListedOk /\ args.Label = LabelAll
    /\ Cardinality(ReturnedIDs) = 2
    /\ \E a \in RelistedIDs(LabelInbox), b \in RelistedIDs(LabelArchive) :
            /\ FavouriteTagged(threads[a]) /\ ReportedArchived(a)
            /\ ReportedArchived(b)

\* a low-priority conversation is in neither result, and not in the result
\* under all
C27_LowPriorityWitness ==
    /\ ListedOk /\ args.Label = LabelAll /\ ~args.IncludeLowPriority
    /\ \E id \in FetchedIDs :
            id \notin ReturnedIDs \cup RelistedIDs(LabelInbox) \cup RelistedIDs(LabelArchive)

(***************************************************************************)
(* Properties of the row limit of ListThreads                              *)
(***************************************************************************)
\* The conversations that pass the storage filters of the request
SelectedIDs ==
    {id \in DOMAIN threads : threadSelected(threads, id, args, Now - args.Days * DayLength)}

RequestedLimit == IF args.Limit <= 0 THEN 50 ELSE args.Limit

OrderKey(id) == threadOrderKey(threads, breadcrumbs, messages, id)

\* The conversation would be returned under the label of the request
MatchesLabel(id) ==
    /\ args.IncludeLowPriority \/ ~LowPriorityRow(threads[id])
    /\ LabelHolds(args.Label, threads[id],
                  scanThread(threads, breadcrumbs, messages, id, FALSE).IsArchived)

\* C28: the storage query returns the first limit rows of its ordering (50
\* for a limit of 0 or less): no more than limit rows, all of them selected,
\* none ordered after a selected row that was left out, and all selected rows
\* when there are at most limit.  The result holds fetched conversations
\* only, in the order fetched, so never more than limit.
C28_LimitBeforeFilter ==
    ListedOk =>
        LET rows == queries[1].rows
        IN  /\ Len(rows) = Min(RequestedLimit, Cardinality(SelectedIDs))
            /\ Len(rows) = Cardinality(Range(rows))
            /\ Range(rows) \subseteq SelectedIDs
            /\ \A a \in Range(rows), b \in SelectedIDs \ Range(rows) : OrderKey(a) >= OrderKey(b)
            /\ Len(ret) <= RequestedLimit
            /\ ReturnedIDs \subseteq Range(rows)
            /\ \A i, j \in DOMAIN ret : i < j =>
                    \E k, l \in DOMAIN rows : k < l /\ rows[k] = ret[i].ID /\ rows[l] = ret[j].ID

\* with limit 1 the result is empty although a conversation beyond the first
\* row matches the label
C28_Witness ==
    /\ ListedOk /\ args.Limit = 1 /\ ret = <<>>
    /\ Len(queries[1].rows) = 1
    /\ \E id \in SelectedIDs \ FetchedIDs : MatchesLabel(id)

\* with the default limit every selected conversation is fetched
C28_DefaultWitness ==
    /\ ListedOk /\ args.Limit = 0 /\ Len(queries[1].rows) = 2 /\ Len(ret) = 1

(***************************************************************************)
(* Properties of the context of a match                                    *)
(***************************************************************************)
SearchedOk == op = "SearchMessages" /\ err = NoErr

ContextIDs(k) == [i \in DOMAIN ret[k].Context |-> ret[k].Context[i].ID]

\* The context of every match is the whole fetched window
WholeWindow == \A k \in DOMAIN ret : ContextIDs(k) = FetchedWindow(k)

\* Without a positive context count and window no context query is issued and
\* every context is empty; with a positive count no context holds its match
CountAndNoContext ==
    /\ (SearchedOk /\ args.Context <= 0 /\ args.Window <= 0) =>
            /\ Asked("context") = {}
            /\ \A k \in DOMAIN ret : ret[k].Context = <<>>
    /\ (SearchedOk /\ args.Context > 0) =>
            \A k \in DOMAIN ret : ret[k].Match.ID \notin Range(ContextIDs(k))

\* C29 as stated: with a window and no context count the context of every
\* match is the whole fetched window and holds the match itself; a context
\* count removes the match; with neither, no context query is issued.
C29_WindowKeepsMatch ==
    /\ (SearchedOk /\ args.Window > 0 /\ args.Context = 0) =>
            /\ WholeWindow
            /\ \A k \in DOMAIN ret : ret[k].Match.ID \in Range(ContextIDs(k))
    /\ CountAndNoContext

\* What the code does: the same, except that the window of a match whose
\* stored timestamp is 0 is empty, so that its context does not hold it.
C29_WindowKeepsTimedMatch ==
    /\ (SearchedOk /\ args.Window > 0 /\ args.Context = 0) =>
            /\ WholeWindow
            /\ \A k \in DOMAIN ret :
                    ret[k].Match.ID \in Range(ContextIDs(k))
                        <=> messages[ret[k].Match.ID].timestamp # 0
    /\ CountAndNoContext

\* a window without count: the context holds the match and two neighbours
C29_Witness ==
    /\ SearchedOk /\ args.Window > 0 /\ args.Context = 0
    /\ \E k \in DOMAIN ret :
            /\ Len(ret[k].Context) >= 3
            /\ ret[k].Match.ID \in Range(ContextIDs(k))

\* a window without count around a match stored at time 0: an empty context
C29_UntimedWitness ==
    /\ SearchedOk /\ args.Window > 0 /\ args.Context = 0
    /\ \E k \in DOMAIN ret :
            messages[ret[k].Match.ID].timestamp = 0 /\ ret[k].Context = <<>>

\* a negative window without count: matches, and no context query
C29_NoQueryWitness ==
    /\ SearchedOk /\ args.Window < 0 /\ args.Context = 0
    /\ ret # <<>> /\ Asked("context") = {}

\* a count: the context was cut down to the neighbours of the match
C29_TrimmedWitness ==
    /\ SearchedOk /\ args.Context = 1
    /\ \E k \in DOMAIN ret :
            Len(ret[k].Context) = 2 /\ ret[k].Match.ID \in Range(FetchedWindow(k))


(***************************************************************************)
(* The single connection of the primary handle                             *)
(***************************************************************************)
\* An operation is under way
Running == pc # <<>>

\* An operation has returned to its caller
Returned == op \in {"ListThreads", "GetThread", "ListMessages", "SearchMessages"}

\* The operation has come to its next query while a cursor of its own, whose
\* rows it has already scanned, still occupies the one connection: the query
\* waits for a release that only the operation's own return would bring
WaitsForItself ==
    /\ Running
    /\ pc.plan # <<>>
    /\ cursors # <<>>
    /\ cursors[Len(cursors)].read

\* C30: on the primary handle, limited to one connection, every public
\* operation has read to the end and released the cursor of its last query
\* before it issues the next one: at most one cursor is ever open, and no
\* query is ever due while the operation still holds a cursor it has scanned,
\* so it never waits for a connection it holds itself; and every operation
\* that was called returns, with a result or an error, holding no cursor
C30_NoSelfWait ==
    /\ [](Len(cursors) <= 1 /\ ~WaitsForItself)
    /\ [](Returned => ~Running /\ cursors = <<>>)
    /\ Running ~> Returned

\* A search with context has returned its results after six queries on the
\* one connection: the index check, the match query, the thread details, the
\* participants and a context query for each of two matches
C30_Witness ==
    /\ op = "SearchMessages"
    /\ err = NoErr
    /\ args.Context = 1
    /\ Len(ret) >= 2
    /\ Len(queries) >= 6
    /\ Cardinality({i \in DOMAIN queries : queries[i].kind = "context"}) >= 2
    /\ cursors = <<>>

\* The search is about to issue a context query, its connection free, after
\* the participants were read
C30_MidWitness ==
    /\ Running
    /\ pc.op = "SearchMessages"
    /\ pc.plan # <<>>
    /\ Head(pc.plan).kind = "context"
    /\ Len(queries) >= 4
    /\ cursors = <<>>

\* A listing holds the cursor of its thread query, not yet scanned, with the
\* participants query still to come
C30_CursorWitness ==
    /\ Running
    /\ pc.op = "ListThreads"
    /\ Len(cursors) = 1
    /\ cursors[1].kind = "threads"
    /\ pc.plan # <<>>
    /\ Head(pc.plan).kind = "participants"

\* An operation returned an error after a failed query, which left no cursor
C30_ErrorWitness ==
    /\ Returned
    /\ err # NoErr
    /\ queries # <<>>
    /\ queries[Len(queries)].err # NoErr
    /\ cursors = <<>>

====
